---- MODULE Spec2Model ----
(***************************************************************************)
(* The dashboard tool API of dashboard-builder (DashboardBuilderTools.ts), *)
(* the React state it drives (DashboardBuilder.tsx) and the data fetcher   *)
(* behind it (dataFetcher.ts).                                             *)
(*                                                                         *)
(* The tools read the dashboard through getDashboardState, which returns   *)
(* dashboardStateRef.current, and write it through setDashboardState with  *)
(* an updater that React applies to the latest state (prev).  The ref is   *)
(* copied from the state by an effect that runs after a render, so a tool  *)
(* may read a state that is older than the one its updater is applied to.  *)
(*                                                                         *)
(* Strings the code tokenises are sequences of lexemes: a row of           *)
(* grid.templateAreas is a sequence of area names, "." placeholders, " "   *)
(* (a run of whitespace) and "'" (a quote character); a path is a sequence *)
(* of "$", ".", "[", "]" and key names.                                    *)
(***************************************************************************)
EXTENDS Integers, Sequences, FiniteSets, TLC

VARIABLES
    dashboardState,     \* React state of DashboardContent (useState)
    dashboardStateRef,  \* dashboardStateRef.current, what getDashboardState returns
    unsynced,           \* state updates applied since the effect last copied the state into the ref
    fetching,           \* fetch_component_data calls awaiting dataFetcher.fetchData
    refreshing,         \* refresh_all_components calls awaiting Promise.allSettled
    crashed,            \* a state updater threw while React applied it
    fetcherConfig,      \* the endpoints the DataFetcher was constructed with
    cache,              \* DataFetcher.cache: componentId -> {data, timestamp}
    cachedIn,           \* history: the chat that was active when cache[componentId] was stored
    now,                \* Date.now()
    currentChatId,      \* the active chat of useHsafa()
    assigned,           \* the last call of setValueAtPath and what it returned
    navigated,          \* the last call of navigateToPath and what it returned
    answered,           \* the last call of a tool that only reads, and how it ended
    isAnyChatOpen,      \* isAnyChatOpen of useHsafa()
    committed,          \* the dependencies the effects of DashboardContent last ran with
    opfs,               \* the store behind saveDashboardVersion and loadLatestDashboard
    loading,            \* calls of loadLatestDashboard awaited and not cancelled
    autosaveTimers,     \* timers of window.setTimeout neither fired nor cleared
    autosaveTimerRef,   \* autosaveTimerRef.current
    autosaved           \* history: the last call of saveDashboardVersion by a timer

toolVars == <<dashboardState, dashboardStateRef, unsynced, fetching, refreshing, crashed>>
fetcherVars == <<fetcherConfig, cache, cachedIn, now, currentChatId>>
pathVars == <<assigned>>
probeVars == <<navigated, answered>>
sessionVars == <<isAnyChatOpen, committed, opfs, loading, autosaveTimers, autosaveTimerRef,
                 autosaved>>

vars == <<dashboardState, dashboardStateRef, unsynced, fetching, refreshing, crashed,
          fetcherConfig, cache, cachedIn, now, currentChatId, assigned, navigated, answered,
          isAnyChatOpen, committed, opfs, loading, autosaveTimers, autosaveTimerRef, autosaved>>

\* How many state updates may be applied before the effect that copies the state
\* into the ref has run.
MaxUnsynced == 2

\* How many tool calls may be awaiting their fetches at once.
MaxInFlight == 1

----------------------------------------------------------------------------
(* Values *)

None == "none"          \* undefined / absent
Undefined == [kind |-> "undefined", body |-> "undefined"]  \* undefined, where objects are held
Now == "now"            \* new Date().toISOString()
SP == " "
QUOTE == "'"
DOT == "."

ComponentIds == {"c1", "c2"}

Range(f) == {f[x] : x \in DOMAIN f}

\* Object spread {...a, ...b}: b's keys win.
Spread(a, b) == [k \in (DOMAIN a) \cup (DOMAIN b) |-> IF k \in DOMAIN b THEN b[k] ELSE a[k]]

\* {...obj, [key]: value}
Put(obj, key, value) == [k \in (DOMAIN obj) \cup {key} |-> IF k = key THEN value ELSE obj[k]]

\* delete obj[key]
Delete(obj, key) == [k \in (DOMAIN obj) \ {key} |-> obj[k]]

NoComponents == [k \in {} |-> None]

EMPTY_DASHBOARD ==
    [grid |-> [columns |-> "", rows |-> "", gap |-> "16px", templateAreas |-> <<>>],
     components |-> NoComponents,
     metadata |-> [name |-> "New Dashboard",
                   description |-> "Ask AI to create your dashboard",
                   createdAt |-> Now],
     postgresSchema |-> Undefined,
     graphqlEndpoint |-> None]

----------------------------------------------------------------------------
(* Grid geometry (gridUtils) *)

\* String.split(/\s+/) of one row, empty tokens dropped.
RowTokens(row) == SelectSeq(row, LAMBDA t : t # SP)

RECURSIVE ConcatRows(_)
ConcatRows(rows) ==
    IF rows = <<>> THEN <<>> ELSE RowTokens(Head(rows)) \o ConcatRows(Tail(rows))

RECURSIVE Dedup(_, _)
Dedup(tokens, seen) ==
    IF tokens = <<>> THEN <<>>
    ELSE IF Head(tokens) \in seen THEN Dedup(Tail(tokens), seen)
    ELSE <<Head(tokens)>> \o Dedup(Tail(tokens), seen \cup {Head(tokens)})

\* The area names of a template, each once, in first-seen order, "." dropped.
extractGridAreas(templateAreas) ==
    Dedup(SelectSeq(ConcatRows(templateAreas), LAMBDA t : t # DOT), {})

\* templateAreas.join(' ')
RECURSIVE JoinRows(_)
JoinRows(rows) ==
    IF rows = <<>> THEN <<>>
    ELSE IF Len(rows) = 1 THEN Head(rows)
    ELSE Head(rows) \o <<SP>> \o JoinRows(Tail(rows))

\* The render that lists the areas without the "." filter.
gridAreasOf_keepsDots(templateAreas) ==
    Dedup(SelectSeq(JoinRows(templateAreas), LAMBDA area : area # SP), {})

\* The gridAreas memo of DashboardContent:
\* [...new Set(templateAreas.join(' ').split(/\s+/).filter(area => area && area !== '.'))]
gridAreasOf(templateAreas) ==
    Dedup(SelectSeq(SelectSeq(JoinRows(templateAreas), LAMBDA area : area # SP),
                    LAMBDA area : area # DOT), {})

isValidGridArea(area, templateAreas) == area \in Range(extractGridAreas(templateAreas))

isGridAreaOccupied(area, state) ==
    \E k \in DOMAIN state.components : state.components[k].gridArea = area

\* The cells (row, column) a token fills.
CellsOf(area, templateAreas) ==
    UNION {{<<r, c>> : c \in {c \in 1..Len(RowTokens(templateAreas[r])) :
                                  RowTokens(templateAreas[r])[c] = area}} :
           r \in 1..Len(templateAreas)}

\* The cells are exactly those of their bounding box.
IsRectangle(cells) ==
    LET rs == {rc[1] : rc \in cells}
        cs == {rc[2] : rc \in cells}
        box == {rc \in rs \X cs : TRUE}
        between(S, x) == (\E a \in S : a <= x) /\ (\E b \in S : x <= b)
    IN  /\ box \subseteq cells
        /\ \A r \in rs : \A r2 \in r..(r + Cardinality(cells)) : between(rs, r2) => r2 \in rs
        /\ \A c \in cs : \A c2 \in c..(c + Cardinality(cells)) : between(cs, c2) => c2 \in cs

validateGridLayout(layout) ==
    LET rows == layout.templateAreas
        errors ==
            (IF layout.columns = "" THEN {"columns"} ELSE {})
            \cup (IF layout.rows = "" THEN {"rows"} ELSE {})
            \cup (IF layout.gap = "" THEN {"gap"} ELSE {})
            \cup (IF rows = <<>> THEN {"templateAreas"} ELSE {})
            \cup (IF \E i, j \in 1..Len(rows) : Len(RowTokens(rows[i])) # Len(RowTokens(rows[j]))
                  THEN {"ragged"} ELSE {})
            \cup (IF \E a \in Range(extractGridAreas(rows)) : ~IsRectangle(CellsOf(a, rows))
                  THEN {"shape"} ELSE {})
    IN  [valid |-> errors = {}, errors |-> errors]

----------------------------------------------------------------------------
(* Path addressing *)

Delimiters == {".", "[", "]"}

\* path.startsWith('$.') ? path.slice(2) : path.startsWith('$') ? path.slice(1) : path
cleanPath(path) ==
    IF Len(path) >= 2 /\ path[1] = "$" /\ path[2] = "." THEN SubSeq(path, 3, Len(path))
    ELSE IF Len(path) >= 1 /\ path[1] = "$" THEN SubSeq(path, 2, Len(path))
    ELSE path

\* cleanPath.split(/\.|\[|\]/).filter(p => p !== '')
pathParts(path) == SelectSeq(cleanPath(path), LAMBDA p : p \notin Delimiters)

\* !path || path === '$' || path === ''
IsWholePath(path) == path = <<>> \/ path = <<"$">>

\* The clone with the value assigned at parent[key], where navigateToPath stops:
\* at the last segment, or at the first segment whose value is absent.
\* (Component records hold no arrays; every segment is an object key.)
RECURSIVE AssignAt(_, _, _)
AssignAt(obj, parts, value) ==
    IF Len(parts) = 1 THEN Put(obj, parts[1], value)
    ELSE IF parts[1] \in DOMAIN obj
         THEN Put(obj, parts[1], AssignAt(obj[parts[1]], Tail(parts), value))
         ELSE Put(obj, parts[1], value)

setValueAtPath(obj, path, value) ==
    IF IsWholePath(path) THEN value
    ELSE IF pathParts(path) = <<>> THEN value
    ELSE AssignAt(obj, pathParts(path), value)

\* null, numbers and arrays among the values a path is walked through; every
\* other value is an object, its keys the fields of the record.
IsNullish(v) == v = [kind |-> "null", body |-> "null"]
NumberValue(text) == [kind |-> "number", body |-> text]
IsPrimitive(v) == "kind" \in DOMAIN v /\ v.kind = "number"
ArrayValue(items) == [kind |-> "array", items |-> items]
IsArrayValue(v) == "kind" \in DOMAIN v /\ "items" \in DOMAIN v /\ v.kind = "array"

\* parseInt(part); NaN otherwise.
NaN == -1
parseInt(part) ==
    CASE part = "0" -> 0
      [] part = "1" -> 1
      [] part = "2" -> 2
      [] OTHER -> NaN

NotFound == [exists |-> FALSE, value |-> None, throws |-> FALSE]
Threw == [exists |-> FALSE, value |-> None, throws |-> TRUE]

\* A walk that goes on past a segment without a value, and reads current[part]
\* and key in current on whatever current is.
RECURSIVE Walk_unguarded(_, _)
Walk_unguarded(current, parts) ==
    LET part == parts[1]
        last == Len(parts) = 1
        arrayIndex == parseInt(part)
    IN  IF arrayIndex # NaN /\ IsArrayValue(current)
        THEN LET inRange == arrayIndex >= 0 /\ arrayIndex < Len(current.items)
             IN  IF last
                 THEN [exists |-> inRange,
                       value |-> IF inRange THEN current.items[arrayIndex + 1] ELSE None,
                       throws |-> FALSE]
                 ELSE IF ~inRange \/ IsNullish(current.items[arrayIndex + 1]) THEN Threw
                 ELSE Walk_unguarded(current.items[arrayIndex + 1], Tail(parts))
        ELSE IF IsNullish(current) \/ (last /\ IsPrimitive(current)) THEN Threw
        ELSE LET present == /\ ~IsPrimitive(current) /\ ~IsArrayValue(current)
                            /\ part \in DOMAIN current
             IN  IF last
                 THEN [exists |-> present,
                       value |-> IF present THEN current[part] ELSE None,
                       throws |-> FALSE]
                 ELSE IF ~present \/ IsNullish(current[part]) THEN Threw
                 ELSE Walk_unguarded(current[part], Tail(parts))

\* The loop of navigateToPath: an index into an array or a key of an object at
\* each segment; exists and value at the last one, exists=false where an
\* earlier segment has no value, and the TypeError of `key in current` on a
\* number.
RECURSIVE Walk(_, _)
Walk(current, parts) ==
    LET part == parts[1]
        last == Len(parts) = 1
        arrayIndex == parseInt(part)
    IN  IF arrayIndex # NaN /\ IsArrayValue(current)
        THEN LET inRange == arrayIndex >= 0 /\ arrayIndex < Len(current.items)
             IN  IF last
                 THEN [exists |-> inRange,
                       value |-> IF inRange THEN current.items[arrayIndex + 1] ELSE None,
                       throws |-> FALSE]
                 ELSE IF ~inRange \/ IsNullish(current.items[arrayIndex + 1]) THEN NotFound
                 ELSE Walk(current.items[arrayIndex + 1], Tail(parts))
        ELSE LET present == /\ ~IsNullish(current) /\ ~IsPrimitive(current)
                            /\ ~IsArrayValue(current) /\ part \in DOMAIN current
             IN  IF last
                 THEN IF IsPrimitive(current) THEN Threw
                      ELSE [exists |-> present,
                            value |-> IF present THEN current[part] ELSE None,
                            throws |-> FALSE]
                 ELSE IF ~present \/ IsNullish(current[part]) THEN NotFound
                 ELSE Walk(current[part], Tail(parts))

navigateToPath(obj, path) ==
    IF IsWholePath(path) \/ pathParts(path) = <<>>
    THEN [exists |-> TRUE, value |-> obj, throws |-> FALSE]
    ELSE Walk(obj, pathParts(path))

\* Objects, paths and values setValueAtPath is called with; every value under a
\* key that a path goes through is an object.
Leaf(n) == [n |-> n]
PathObjects ==
    {[a |-> [b |-> Leaf("1")]], [c |-> [b |-> Leaf("1")]], [a |-> [d |-> Leaf("1")]]}
PathValues == {Leaf("5"), Leaf("7")}
Paths ==
    {<<"$">>, <<"$", ".", "a">>, <<"$", ".", "a", ".", "b">>, <<"a", ".", "b">>,
     <<"$", ".", "c", ".", "b", ".", "n">>, <<"$", ".", "a", "[", "d", "]">>}

Unassigned(obj) == [called |-> FALSE, result |-> obj]
NotAssigned == Unassigned([k \in {} |-> None])

----------------------------------------------------------------------------
(* Data fetcher *)

\* The endpoints createDashboardTools gives its DataFetcher, and a DataFetcher
\* constructed without any.
ToolsFetcherConfig == [mcpPostgresEndpoint |-> "/api/mcp/postgres", graphqlEndpoint |-> "/graphql"]
NoEndpoints == [mcpPostgresEndpoint |-> None, graphqlEndpoint |-> None]

\* this.mcpPostgresEndpoint, this.graphqlEndpoint
mcpPostgresEndpoint == fetcherConfig.mcpPostgresEndpoint
fetcherGraphqlEndpoint == fetcherConfig.graphqlEndpoint

\* What the transport answers to one request.
Responses == {"ok", "non2xx", "networkError", "graphqlErrors"}

\* {error: reason}
SoftError(reason) == [kind |-> "softError", body |-> reason]
IsSoftError(v) == v.kind = "softError"

EmptyData == [kind |-> "object", body |-> "{}"]
NullData == [kind |-> "null", body |-> "null"]
StaticPayload == [kind |-> "object", body |-> "static payload"]
QueryRows == [kind |-> "rows", body |-> "rows of the query"]

Fulfilled(v) == [status |-> "fulfilled", value |-> v, reason |-> None]
Rejected(msg) == [status |-> "rejected", value |-> None, reason |-> msg]

\* A fetcher that lets the failure of the request reach its caller.
fetchFromPostgreSQL_throws(source, response) ==
    IF response = "networkError" THEN Rejected("Failed to fetch")
    ELSE IF response = "non2xx" THEN Rejected("statusText")
    ELSE Fulfilled(QueryRows)

fetchFromPostgreSQL(source, response) ==
    IF mcpPostgresEndpoint = None THEN Fulfilled(SoftError("PostgreSQL endpoint not configured"))
    ELSE IF response = "networkError" THEN Fulfilled(SoftError("Failed to fetch"))
    ELSE IF response = "non2xx" THEN Fulfilled(SoftError("statusText"))
    ELSE Fulfilled(QueryRows)

\* A GraphQL fetcher that lets the failure of the request, and the errors of the
\* answer, reach its caller.
fetchFromGraphQL_throws(source, response) ==
    IF response = "networkError" THEN Rejected("Failed to fetch")
    ELSE IF response = "non2xx" THEN Rejected("statusText")
    ELSE IF response = "graphqlErrors" THEN Rejected("result.errors")
    ELSE Fulfilled(QueryRows)

fetchFromGraphQL(source, response) ==
    LET endpoint == IF "endpoint" \in DOMAIN source THEN source.endpoint
                    ELSE fetcherGraphqlEndpoint
    IN  IF endpoint = None THEN Fulfilled(SoftError("GraphQL endpoint not configured"))
        ELSE IF response = "networkError" THEN Fulfilled(SoftError("Failed to fetch"))
        ELSE IF response = "non2xx" THEN Fulfilled(SoftError("statusText"))
        ELSE IF response = "graphqlErrors" THEN Fulfilled(SoftError("result.errors"))
        ELSE Fulfilled(QueryRows)

fetchFromStatic(source) == Fulfilled(source.data)

fetchFromSource(source, response) ==
    CASE source.type = "postgresql" -> fetchFromPostgreSQL(source, response)
      [] source.type = "graphql" -> fetchFromGraphQL(source, response)
      [] source.type = "static" -> fetchFromStatic(source)
      [] OTHER -> Rejected("Unknown data source type")

\* Handlebars.compile(template)(context): a template that does not compile or
\* render throws. The text another template renders is a term over the template
\* and the data it was given; text that begins with [ or { and parses as JSON
\* is returned parsed, other text as the string it is.
BadTemplate == "{{#each}"
TemplateList == "[{{#each data}}{{json this}},{{/each}}]"
TemplateCard == "{\"total\": {{data.total}}}"
TemplateText == "Total: {{data.total}}"
renderedKind(templateConfig) ==
    CASE templateConfig = TemplateList -> "array"
      [] templateConfig = TemplateCard -> "object"
      [] OTHER -> "string"
applyHandlebarsTemplate(data, templateConfig) ==
    IF templateConfig = BadTemplate THEN Rejected("Handlebars template failed")
    ELSE Fulfilled([kind |-> renderedKind(templateConfig), body |-> templateConfig,
                    data |-> data])

\* Array.isArray(data)
isArray(data) == data.kind \in {"rows", "array"}

\* [data]
ArrayOf(data) == [kind |-> "array", body |-> "[data]", data |-> data]

\* alasql(query, [dataArray, params]): the rows of the query, a term over the
\* query and the rows it ran on.
alasql(query, dataArray) == [kind |-> "rows", body |-> query, data |-> dataArray]

\* A transform that hands the data to alasql as they come.
applyAlaSQLTransform_unwrapped(data, transform) ==
    IF transform = "SELECT FROM" THEN Rejected("AlaSQL transform failed")
    ELSE Fulfilled(alasql(transform, data))

\* alasql(transform.query, [dataArray, transform.params]): a query alasql fails
\* on throws.
BadQuery == "SELECT FROM"
QueryTotals == "SELECT SUM(amount) AS total FROM ?"
applyAlaSQLTransform(data, transform) ==
    LET dataArray == IF isArray(data) THEN data ELSE ArrayOf(data)
    IN  IF transform = BadQuery THEN Rejected("AlaSQL transform failed")
        ELSE Fulfilled(alasql(transform, dataArray))

\* fetchData past its cache lookup: the source, then the transforms.
fetchData(componentId, config, response) ==
    LET raw == fetchFromSource(config.source, response)
        rendered == IF raw.status = "rejected" THEN raw
                    ELSE IF config.handlebarsTemplate # None
                    THEN applyHandlebarsTemplate(raw.value, config.handlebarsTemplate)
                    ELSE raw
    IN  IF rendered.status = "rejected" THEN rendered
        ELSE IF config.alasqlTransform # None
             THEN applyAlaSQLTransform(rendered.value, config.alasqlTransform)
             ELSE rendered

NoCache == [enabled |-> FALSE, ttl |-> 0]

StaticCfg ==
    [source |-> [type |-> "static", data |-> StaticPayload],
     handlebarsTemplate |-> None, alasqlTransform |-> None, cache |-> NoCache]

GraphqlCfg ==
    [source |-> [type |-> "graphql", query |-> "{ sales }"],
     handlebarsTemplate |-> None, alasqlTransform |-> None, cache |-> NoCache]

PostgresCfg ==
    [source |-> [type |-> "postgresql", query |-> "SELECT 1"],
     handlebarsTemplate |-> None, alasqlTransform |-> None, cache |-> NoCache]

BadTemplateCfg ==
    [source |-> [type |-> "static", data |-> StaticPayload],
     handlebarsTemplate |-> BadTemplate, alasqlTransform |-> None, cache |-> NoCache]

\* A configuration with the cache enabled: the ttl is one millisecond, zero,
\* or not given.
CachedCfg(source, cacheConfig) ==
    [source |-> source, handlebarsTemplate |-> None, alasqlTransform |-> None,
     cache |-> cacheConfig]

BadQueryCfg ==
    [source |-> [type |-> "static", data |-> StaticPayload],
     handlebarsTemplate |-> None, alasqlTransform |-> BadQuery, cache |-> NoCache]

UnknownSourceCfg ==
    [source |-> [type |-> "rest"],
     handlebarsTemplate |-> None, alasqlTransform |-> None, cache |-> NoCache]

\* A query transform that fails, over a source that is asked over the network.
PostgresBadQueryCfg ==
    [source |-> [type |-> "postgresql", query |-> "SELECT 1"],
     handlebarsTemplate |-> None, alasqlTransform |-> BadQuery, cache |-> NoCache]

CacheConfigs ==
    {[enabled |-> TRUE, ttl |-> 1], [enabled |-> TRUE, ttl |-> 0], [enabled |-> TRUE]}

\* What DataFetcher.fetchData is called with.
FetchConfigs ==
    {CachedCfg([type |-> "postgresql", query |-> "SELECT 1"], c) : c \in CacheConfigs}
    \cup {CachedCfg([type |-> "static", data |-> NullData], [enabled |-> TRUE, ttl |-> 1])}
    \cup {CachedCfg([type |-> "postgresql", query |-> "SELECT 1"], NoCache)}
    \cup {GraphqlCfg, BadTemplateCfg, BadQueryCfg, PostgresBadQueryCfg, UnknownSourceCfg}

----------------------------------------------------------------------------
(* The cache of the data fetcher *)

\* const maxAge = ttl || 60000
DefaultTtl == 60000
maxAge(cacheConfig) ==
    IF "ttl" \in DOMAIN cacheConfig /\ cacheConfig.ttl # 0 THEN cacheConfig.ttl
    ELSE DefaultTtl

NoEntries == [k \in {} |-> None]

\* getFromCache(componentId, ttl): the value returned, null included, and the
\* cache Map after the call.
getFromCache(componentId, cacheConfig) ==
    IF componentId \notin DOMAIN cache
    THEN [value |-> NullData, cache |-> cache]
    ELSE IF now - cache[componentId].timestamp > maxAge(cacheConfig)
    THEN [value |-> NullData, cache |-> Delete(cache, componentId)]
    ELSE [value |-> cache[componentId].data, cache |-> cache]

\* setCache(componentId, data) on the Map entries.
setCache(entries, componentId, data) ==
    Put(entries, componentId, [data |-> data, timestamp |-> now])

\* config.cache?.enabled and the lookup fetchData begins with.
cacheLookup(componentId, config) ==
    IF config.cache.enabled THEN getFromCache(componentId, config.cache)
    ELSE [value |-> NullData, cache |-> cache]

\* cached !== null
cacheHit(componentId, config) ==
    config.cache.enabled /\ cacheLookup(componentId, config).value # NullData

\* How the promise of DataFetcher.fetchData settles, the transport answering
\* with response should the source be asked.
DataFetcher_fetchData_result(componentId, config, response) ==
    IF cacheHit(componentId, config)
    THEN Fulfilled(cacheLookup(componentId, config).value)
    ELSE fetchData(componentId, config, response)

\* The cache Map when DataFetcher.fetchData has settled.
DataFetcher_fetchData_cache(componentId, config, response) ==
    IF /\ config.cache.enabled
       /\ ~cacheHit(componentId, config)
       /\ fetchData(componentId, config, response).status = "fulfilled"
    THEN setCache(cacheLookup(componentId, config).cache, componentId,
                  fetchData(componentId, config, response).value)
    ELSE cacheLookup(componentId, config).cache

\* One call of DataFetcher.fetchData.
DataFetcher_fetchData(componentId, config, response) ==
    LET entries == DataFetcher_fetchData_cache(componentId, config, response)
        stored == componentId \in DOMAIN entries /\ ~cacheHit(componentId, config)
    IN  /\ cache' = entries
        /\ cachedIn' = [k \in DOMAIN entries |->
                            IF stored /\ k = componentId THEN currentChatId ELSE cachedIn[k]]
        /\ UNCHANGED <<fetcherConfig, now, currentChatId>>
        /\ UNCHANGED <<toolVars, pathVars, probeVars, sessionVars>>

----------------------------------------------------------------------------
(* Tool calls: what the agent may send *)

RowHeaderHeader == <<"header", SP, "header">>
RowSidebarMain == <<"sidebar", SP, "main">>
RowHeaderMain == <<"header", SP, "main">>
RowMain == <<"main">>

\* Two columns by two rows, its first row sent with its quotes.
LayoutA ==
    [columns |-> "1fr 1fr", rows |-> "auto 1fr", gap |-> "16px",
     templateAreas |-> << <<QUOTE>> \o RowHeaderHeader \o <<QUOTE>>, RowSidebarMain >>]

\* One row, without the sidebar.
LayoutB ==
    [columns |-> "1fr 1fr", rows |-> "1fr", gap |-> "8px",
     templateAreas |-> << RowHeaderMain >>]

\* Rows of two tokens and of one.
LayoutRagged ==
    [columns |-> "1fr 1fr", rows |-> "auto 1fr", gap |-> "16px",
     templateAreas |-> << RowHeaderHeader, RowMain >>]

LayoutParams == {LayoutA, LayoutB, LayoutRagged}

CreateParams ==
    {[id |-> "c1", type |-> "table", gridArea |-> "main", title |-> "Sales", dataConfig |-> StaticCfg],
     [id |-> "c2", type |-> "chart", gridArea |-> "main", title |-> "Trend", dataConfig |-> BadTemplateCfg],
     [id |-> "c2", type |-> "chart", gridArea |-> "sidebar", title |-> "Trend", dataConfig |-> PostgresCfg],
     [id |-> "c1", type |-> "table", gridArea |-> "footer", title |-> "Sales", dataConfig |-> StaticCfg]}

\* A layout whose area "main" fills an L of cells.
LayoutLShape ==
    [columns |-> "1fr 1fr", rows |-> "auto 1fr", gap |-> "16px",
     templateAreas |-> << <<"main", SP, "main">>, <<"main", SP, "sidebar">> >>]

\* A layout with an unnamed cell.
LayoutDotted ==
    [columns |-> "1fr 1fr", rows |-> "auto 1fr", gap |-> "16px",
     templateAreas |-> << RowHeaderHeader, <<DOT, SP, "main">> >>]

\* LayoutB, its row sent with its quotes and with whitespace inside them.
LayoutPadded ==
    [columns |-> "1fr 1fr", rows |-> "1fr", gap |-> "8px",
     templateAreas |-> << <<QUOTE, SP>> \o RowHeaderMain \o <<SP, QUOTE>> >>]

LayoutInputs == LayoutParams \cup {LayoutLShape, LayoutDotted, LayoutPadded}

NoPath == <<>>

\* A whole component, as update_component may be given one for the path "$".
Replacement ==
    [id |-> "c9", type |-> "gauge", gridArea |-> "footer", title |-> "Replaced",
     description |-> None, dataConfig |-> StaticCfg, data |-> EmptyData,
     options |-> None, style |-> None,
     metadata |-> [createdAt |-> Now, fetchStatus |-> "idle"]]

\* update_component without a path: updates is an object of fields.
MergeUpdates ==
    {[id |-> "c2", path |-> NoPath, updates |-> [id |-> "c1", gridArea |-> "main"]]}

\* update_component with the path of one field: updates is the field's value.
FieldUpdates ==
    {[id |-> "c1", path |-> <<"$", ".", "id">>, updates |-> "c2"],
     [id |-> "c2", path |-> <<"$", ".", "gridArea">>, updates |-> "footer"]}

\* update_component with the path "$": updates is the component.
WholeUpdates ==
    {[id |-> "c1", path |-> <<"$">>, updates |-> Replacement]}

IdParams == {[id |-> k] : k \in ComponentIds}

\* Object.keys(components), in one fixed order.
IdOrder == <<"c1", "c2">>
ObjectKeys(obj) == SelectSeq(IdOrder, LAMBDA k : k \in DOMAIN obj)

----------------------------------------------------------------------------
(* The React state and its ref *)

getDashboardState == dashboardStateRef

Applied(state) == [throws |-> FALSE, state |-> state]
Throws == [throws |-> TRUE, state |-> None]

\* setDashboardState(updater): React applies the updater to the latest state; an
\* updater that throws brings the render down and leaves the state as it was.
setDashboardState(update) ==
    /\ unsynced < MaxUnsynced
    /\ unsynced' = unsynced + 1
    /\ IF update.throws
       THEN crashed' = TRUE /\ UNCHANGED dashboardState
       ELSE dashboardState' = update.state /\ UNCHANGED crashed
    /\ UNCHANGED <<fetcherVars, pathVars, probeVars, sessionVars>>

\* useEffect(() => { dashboardStateRef.current = dashboardState }, [dashboardState])
SyncRef ==
    /\ ~crashed
    /\ unsynced > 0
    /\ dashboardStateRef' = dashboardState
    /\ unsynced' = 0
    /\ UNCHANGED <<dashboardState, fetching, refreshing, crashed>>
    /\ UNCHANGED <<fetcherVars, pathVars, probeVars, sessionVars>>

ToolResponse(success, error, data) == [success |-> success, error |-> error, data |-> data]

\* A call that returns without a state update.
Returns == UNCHANGED vars

InFlight == Cardinality(fetching) + Cardinality(refreshing)

----------------------------------------------------------------------------
(* Dashboard tools *)

\* A normalisation that takes the quotes off a row and leaves its whitespace.
normalizeRow_untrimmed(area) ==
    LET noLead == IF area # <<>> /\ Head(area) = QUOTE THEN Tail(area) ELSE area
    IN  IF noLead # <<>> /\ noLead[Len(noLead)] = QUOTE
        THEN SubSeq(noLead, 1, Len(noLead) - 1) ELSE noLead

normalizeRow(area) ==
    LET RECURSIVE TrimLeft(_)
        TrimLeft(r) == IF r # <<>> /\ Head(r) = SP THEN TrimLeft(Tail(r)) ELSE r
        RECURSIVE TrimRight(_)
        TrimRight(r) ==
            IF r # <<>> /\ r[Len(r)] = SP THEN TrimRight(SubSeq(r, 1, Len(r) - 1)) ELSE r
        noLead == IF area # <<>> /\ Head(area) = QUOTE THEN Tail(area) ELSE area
        noTrail == IF noLead # <<>> /\ noLead[Len(noLead)] = QUOTE
                   THEN SubSeq(noLead, 1, Len(noLead) - 1) ELSE noLead
    IN  TrimRight(TrimLeft(noTrail))

normalizeParams(params) ==
    [params EXCEPT !.templateAreas = [i \in 1..Len(params.templateAreas) |->
                                          normalizeRow(params.templateAreas[i])]]

orphanedComponents(state, newAreas) ==
    {k \in DOMAIN state.components : state.components[k].gridArea \notin Range(newAreas)}

\* set_grid_layout that does not validate the layout.
set_grid_layout_response_unvalidated(params) ==
    LET newAreas == extractGridAreas(normalizeParams(params).templateAreas)
    IN  IF orphanedComponents(getDashboardState, newAreas) # {}
        THEN ToolResponse(FALSE, "Cannot update grid layout", None)
        ELSE ToolResponse(TRUE, None, [gridAreas |-> newAreas])

\* What set_grid_layout returns, from the state it reads.
set_grid_layout_response(params) ==
    LET normalizedParams == normalizeParams(params)
        newAreas == extractGridAreas(normalizedParams.templateAreas)
    IN  IF ~validateGridLayout(normalizedParams).valid
        THEN ToolResponse(FALSE, "Invalid grid layout", None)
        ELSE IF orphanedComponents(getDashboardState, newAreas) # {}
        THEN ToolResponse(FALSE, "Cannot update grid layout", None)
        ELSE ToolResponse(TRUE, None, [gridAreas |-> newAreas])

newGrid(params) ==
    LET normalizedParams == normalizeParams(params)
    IN  [columns |-> normalizedParams.columns,
         rows |-> normalizedParams.rows,
         gap |-> normalizedParams.gap,
         templateAreas |-> normalizedParams.templateAreas]

set_grid_layout(params) ==
    /\ ~crashed
    /\ IF set_grid_layout_response(params).success
       THEN /\ setDashboardState(Applied([dashboardState EXCEPT !.grid = newGrid(params)]))
            /\ UNCHANGED <<dashboardStateRef, fetching, refreshing>>
       ELSE Returns

newComponent(params) ==
    [id |-> params.id,
     type |-> params.type,
     gridArea |-> params.gridArea,
     title |-> params.title,
     description |-> None,
     dataConfig |-> params.dataConfig,
     data |-> EmptyData,
     options |-> None,
     style |-> None,
     metadata |-> [createdAt |-> Now, fetchStatus |-> "idle"]]

\* A create_component that takes any grid area for one of the template.
create_component_response_anyArea(params) ==
    LET currentState == getDashboardState
    IN  IF params.id \in DOMAIN currentState.components
        THEN ToolResponse(FALSE, "already exists", None)
        ELSE IF isGridAreaOccupied(params.gridArea, currentState)
        THEN ToolResponse(FALSE, "already occupied", None)
        ELSE ToolResponse(TRUE, None, [component |-> newComponent(params)])

\* What create_component returns, from the state it reads.
create_component_response(params) ==
    LET currentState == getDashboardState
    IN  IF params.id \in DOMAIN currentState.components
        THEN ToolResponse(FALSE, "already exists", None)
        ELSE IF ~isValidGridArea(params.gridArea, currentState.grid.templateAreas)
        THEN ToolResponse(FALSE, "not found in template areas", None)
        ELSE IF isGridAreaOccupied(params.gridArea, currentState)
        THEN ToolResponse(FALSE, "already occupied", None)
        ELSE ToolResponse(TRUE, None, [component |-> newComponent(params)])

create_component(params) ==
    /\ ~crashed
    /\ IF create_component_response(params).success
       THEN /\ setDashboardState(Applied(
                   [dashboardState EXCEPT !.components =
                       Put(dashboardState.components, params.id, newComponent(params))]))
            /\ UNCHANGED <<dashboardStateRef, fetching, refreshing>>
       ELSE Returns

\* { ...component, ...params.updates, id: params.id, metadata: { ...component.metadata, updatedAt } }
mergeUpdates(component, params) ==
    Spread(Spread(component, params.updates),
           [id |-> params.id,
            metadata |-> Spread(component.metadata, [updatedAt |-> Now])])

updatedComponent(component, params) ==
    IF params.path # NoPath
    THEN setValueAtPath(component, params.path, params.updates)
    ELSE mergeUpdates(component, params)

\* What update_component returns, from the state it reads.
update_component_response(params) ==
    LET currentState == getDashboardState
    IN  IF params.id \notin DOMAIN currentState.components
        THEN ToolResponse(FALSE, "not found", None)
        ELSE ToolResponse(TRUE, None, updatedComponent(currentState.components[params.id], params))

update_component(params) ==
    /\ ~crashed
    /\ IF update_component_response(params).success
       THEN /\ setDashboardState(Applied(
                   [dashboardState EXCEPT !.components =
                       Put(dashboardState.components, params.id,
                           update_component_response(params).data)]))
            /\ UNCHANGED <<dashboardStateRef, fetching, refreshing>>
       ELSE Returns

\* What remove_component returns, from the state it reads.
remove_component_response(params) ==
    IF params.id \notin DOMAIN getDashboardState.components
    THEN ToolResponse(FALSE, "not found", None)
    ELSE ToolResponse(TRUE, None, None)

remove_component(params) ==
    /\ ~crashed
    /\ IF remove_component_response(params).success
       THEN /\ setDashboardState(Applied(
                   [dashboardState EXCEPT !.components =
                       Delete(dashboardState.components, params.id)]))
            /\ UNCHANGED <<dashboardStateRef, fetching, refreshing>>
       ELSE Returns

\* What get_component returns, from the state it reads.
get_component_response(params) ==
    LET currentState == getDashboardState
    IN  IF params.id \notin DOMAIN currentState.components
        THEN ToolResponse(FALSE, "not found", None)
        ELSE ToolResponse(TRUE, None, currentState.components[params.id])

get_component(params) ==
    /\ ~crashed
    /\ get_component_response(params).success \in BOOLEAN
    /\ Returns

----------------------------------------------------------------------------
(* The tools that read: state, grid, schema, templates *)

\* A promise that rejects instead of resolving to a ToolResponse.
ToolRejects(error) == [rejected |-> TRUE, error |-> error]

\* The call of a tool that only answers: which tool, and how it ended.
answers(tool, response) ==
    /\ ~crashed
    /\ answered' = [tool |-> tool,
                    success |-> "success" \in DOMAIN response /\ response.success,
                    rejected |-> "rejected" \in DOMAIN response]
    /\ UNCHANGED <<toolVars, fetcherVars, pathVars, navigated, sessionVars>>

get_dashboard_response == ToolResponse(TRUE, None, getDashboardState)

get_dashboard == answers("get_dashboard", get_dashboard_response)

get_component_answers(params) == answers("get_component", get_component_response(params))

\* Areas of the template, and those with and without a component.
getGridStats(state) ==
    LET areas == extractGridAreas(state.grid.templateAreas)
        free == SelectSeq(areas, LAMBDA a : ~isGridAreaOccupied(a, state))
    IN  [totalAreas |-> Len(areas), usedAreas |-> Len(areas) - Len(free),
         availableAreas |-> Len(free), availableAreaNames |-> free]

\* ({id: c.id, type: c.type, gridArea: c.gridArea, title: c.title})
summaryOf(c) == [k \in {"id", "type", "gridArea", "title"} |->
                    IF k \in DOMAIN c THEN c[k] ELSE None]

get_grid_info_response ==
    LET currentState == getDashboardState
        ids == ObjectKeys(currentState.components)
    IN  ToolResponse(TRUE, None,
                     [grid |-> currentState.grid,
                      stats |-> getGridStats(currentState),
                      components |-> [i \in 1..Len(ids) |->
                                         summaryOf(currentState.components[ids[i]])]])

get_grid_info == answers("get_grid_info", get_grid_info_response)

\* Schema snapshots: tables of one name in two schemas, a single table, and a
\* snapshot that lists no tables.
SchemaShop ==
    [schemas |-> <<"public", "sales">>,
     tables |-> <<[schema |-> "public", name |-> "orders", columns |-> "id, total"],
                  [schema |-> "sales", name |-> "orders", columns |-> "id, region"],
                  [schema |-> "public", name |-> "users", columns |-> "id, email"]>>]
SchemaHr ==
    [schemas |-> <<"hr">>,
     tables |-> <<[schema |-> "hr", name |-> "orders", columns |-> "id"]>>]
SchemaBare == [schemas |-> <<"public">>]
SchemaParams == {[schema |-> s] : s \in {SchemaShop, SchemaHr, SchemaBare}}

set_postgres_schema_response(params) == ToolResponse(TRUE, None, params.schema)

set_postgres_schema(params) ==
    /\ ~crashed
    /\ setDashboardState(Applied([dashboardState EXCEPT !.postgresSchema = params.schema]))
    /\ UNCHANGED <<dashboardStateRef, fetching, refreshing>>

\* !currentState.postgresSchema
NoSchemaStored(state) == state.postgresSchema = Undefined

get_postgres_schema_response ==
    LET currentState == getDashboardState
    IN  IF NoSchemaStored(currentState)
        THEN ToolResponse(FALSE, "No PostgreSQL schema configured", NullData)
        ELSE ToolResponse(TRUE, None, currentState.postgresSchema)

\* A tool that forgets the schema once it has answered.
get_postgres_schema_clearing ==
    /\ ~crashed
    /\ answered' = [tool |-> "get_postgres_schema",
                    success |-> get_postgres_schema_response.success, rejected |-> FALSE]
    /\ dashboardState' = [dashboardState EXCEPT !.postgresSchema = Undefined]
    /\ UNCHANGED <<dashboardStateRef, unsynced, fetching, refreshing, crashed>>
    /\ UNCHANGED <<fetcherVars, pathVars, navigated, sessionVars>>

get_postgres_schema == answers("get_postgres_schema", get_postgres_schema_response)

\* A parameter that is given and is not the empty string.
Given(x) == x # None /\ x # ""

QueryParams ==
    {[schemaName |-> s, tableName |-> t] :
        s \in {None, "", "public", "sales", "audit"},
        t \in {None, "", "orders", "users", "Orders"}}

\* tables.find(t => t.name === tableName && (!schemaName || t.schema === schemaName))
findTable(tables, params) ==
    LET matches == SelectSeq(tables, LAMBDA t :
                       /\ t.name = params.tableName
                       /\ (~Given(params.schemaName) \/ t.schema = params.schemaName))
    IN  IF matches = <<>> THEN Undefined ELSE matches[1]

query_postgres_schema_response(params) ==
    LET currentState == getDashboardState
        postgresSchema == currentState.postgresSchema
    IN  IF NoSchemaStored(currentState)
        THEN ToolResponse(FALSE, "No PostgreSQL schema configured", NullData)
        ELSE IF Given(params.tableName)
        THEN IF "tables" \notin DOMAIN postgresSchema
             THEN ToolRejects("TypeError")
             ELSE IF findTable(postgresSchema.tables, params) = Undefined
             THEN ToolResponse(FALSE, "Table not found in schema", None)
             ELSE ToolResponse(TRUE, None, findTable(postgresSchema.tables, params))
        ELSE IF Given(params.schemaName)
        THEN IF "tables" \notin DOMAIN postgresSchema
             THEN ToolRejects("TypeError")
             ELSE ToolResponse(TRUE, None,
                               SelectSeq(postgresSchema.tables,
                                         LAMBDA t : t.schema = params.schemaName))
        ELSE ToolResponse(TRUE, None,
                          IF "schemas" \in DOMAIN postgresSchema
                          THEN postgresSchema.schemas ELSE Undefined)

query_postgres_schema(params) ==
    answers("query_postgres_schema", query_postgres_schema_response(params))

\* generate_chart_template and generate_table_template: the template text as
\* a term over the parameters; a list that is missing makes .map throw, which
\* the tool catches.
ChartParams ==
    {[labelField |-> "month", valueFields |-> <<"total", "count">>, datasetLabels |-> <<"Total">>],
     [labelField |-> "month", valueFields |-> <<"total">>],
     [labelField |-> "month"]}

generate_chart_template_response(params) ==
    IF "valueFields" \notin DOMAIN params
    THEN ToolResponse(FALSE, "Cannot read properties of undefined", None)
    ELSE ToolResponse(TRUE, None,
             [template |->
                 [labels |-> params.labelField,
                  datasets |-> [index \in 1..Len(params.valueFields) |->
                      [label |-> IF /\ "datasetLabels" \in DOMAIN params
                                    /\ index <= Len(params.datasetLabels)
                                 THEN params.datasetLabels[index]
                                 ELSE params.valueFields[index],
                       data |-> params.valueFields[index]]]]])

generate_chart_template(params) ==
    answers("generate_chart_template", generate_chart_template_response(params))

TableParams ==
    {[columns |-> <<[key |-> "month", label |-> "Month"], [key |-> "total", label |-> "Total"]>>],
     [title |-> "Sales"]}

generate_table_template_response(params) ==
    IF "columns" \notin DOMAIN params
    THEN ToolResponse(FALSE, "Cannot read properties of undefined", None)
    ELSE ToolResponse(TRUE, None,
             [template |->
                 [columns |-> params.columns,
                  rows |-> [i \in 1..Len(params.columns) |-> params.columns[i].key]]])

generate_table_template(params) ==
    answers("generate_table_template", generate_table_template_response(params))

\* c.metadata, whose spread is empty when the component has none.
MetadataOf(c) == IF "metadata" \in DOMAIN c THEN c.metadata ELSE [k \in {} |-> None]

\* { ...c, metadata: { ...c.metadata, ...fields } }
WithMetadata(c, fields) == Put(c, "metadata", Spread(MetadataOf(c), fields))

\* Replaces the component under id; for the updaters below, which throw on
\* prev.components[id].metadata when prev holds no component under id.
WithComponent(prev, id, component) ==
    [prev EXCEPT !.components = Put(prev.components, id, component)]

LoadingUpdater(prev, id) ==
    IF id \notin DOMAIN prev.components THEN Throws
    ELSE Applied(WithComponent(prev, id,
             WithMetadata(prev.components[id], [fetchStatus |-> "loading"])))

fetchedComponent(c, fetchedData) ==
    WithMetadata(Put(c, "data", fetchedData),
                 [fetchStatus |-> "success", lastFetchedAt |-> Now, error |-> None])

failedComponent(c, message) ==
    WithMetadata(c, [fetchStatus |-> "error", error |-> message])

SuccessUpdater(prev, id, fetchedData) ==
    IF id \notin DOMAIN prev.components THEN Throws
    ELSE Applied(WithComponent(prev, id, fetchedComponent(prev.components[id], fetchedData)))

ErrorUpdater(prev, id, message) ==
    IF id \notin DOMAIN prev.components THEN Throws
    ELSE Applied(WithComponent(prev, id, failedComponent(prev.components[id], message)))

\* What fetch_component_data returns before any fetch, from the state it reads:
\* success is TRUE when it goes on to fetch.
fetch_component_data_check(params) ==
    IF params.id \notin DOMAIN getDashboardState.components
    THEN ToolResponse(FALSE, "not found", None)
    ELSE ToolResponse(TRUE, None, None)

\* fetch_component_data up to its await of dataFetcher.fetchData.
fetch_component_data(params) ==
    /\ ~crashed
    /\ IF fetch_component_data_check(params).success
       THEN /\ InFlight < MaxInFlight
            /\ setDashboardState(LoadingUpdater(dashboardState, params.id))
            /\ fetching' = fetching \cup
                   {[id |-> params.id,
                     dataConfig |-> getDashboardState.components[params.id].dataConfig]}
            /\ UNCHANGED <<dashboardStateRef, refreshing>>
       ELSE Returns

\* What fetch_component_data returns once its fetch has settled.
fetch_component_data_response(call, response) ==
    LET settled == fetchData(call.id, call.dataConfig, response)
    IN  IF settled.status = "fulfilled"
        THEN ToolResponse(TRUE, None, settled.value)
        ELSE ToolResponse(FALSE, settled.reason, None)

\* fetch_component_data from the settlement of its fetch to its return.
fetch_settles(call, response) ==
    LET settled == fetchData(call.id, call.dataConfig, response)
    IN  /\ ~crashed
        /\ call \in fetching
        /\ fetching' = fetching \ {call}
        /\ IF settled.status = "fulfilled"
           THEN setDashboardState(SuccessUpdater(dashboardState, call.id, settled.value))
           ELSE setDashboardState(ErrorUpdater(dashboardState, call.id, settled.reason))
        /\ UNCHANGED <<dashboardStateRef, refreshing>>

\* refresh_all_components up to its await of Promise.allSettled.
refresh_all_components ==
    LET currentState == getDashboardState
        componentIds == ObjectKeys(currentState.components)
    IN  /\ ~crashed
        /\ InFlight < MaxInFlight
        /\ refreshing' = refreshing \cup
               {[componentIds |-> componentIds,
                 dataConfigs |-> [i \in 1..Len(componentIds) |->
                                     currentState.components[componentIds[i]].dataConfig]]}
        /\ UNCHANGED <<dashboardState, dashboardStateRef, unsynced, fetching, crashed>>
        /\ UNCHANGED <<fetcherVars, pathVars, probeVars, sessionVars>>

\* componentIds.map(id => dataFetcher.fetchData(...)): the settlement of each
\* fetch, index by index.
refreshResults(call, responses) ==
    [i \in 1..Len(call.componentIds) |->
        fetchData(call.componentIds[i], call.dataConfigs[i], responses[i])]

\* Promise.allSettled that lists the settlements in the order they arrive.
allSettled_inArrivalOrder(promises, order) ==
    [k \in 1..Len(promises) |-> promises[order[k]]]

\* The orders in which n promises can settle.
SettleOrders(n) ==
    {order \in [1..n -> 1..n] : \A i, j \in 1..n : order[i] = order[j] => i = j}

\* Promise.allSettled: each settlement is recorded at the index of its promise,
\* whenever it arrives; results holds what has been recorded so far.
RECURSIVE recordSettlements(_, _, _)
recordSettlements(results, promises, order) ==
    IF order = <<>> THEN results
    ELSE recordSettlements([results EXCEPT ![Head(order)] = promises[Head(order)]],
                           promises, Tail(order))

allSettled(promises, order) ==
    recordSettlements([i \in 1..Len(promises) |-> [status |-> "pending"]],
                      promises, order)

\* componentIds.forEach((id, index) => ...) over updatedComponents, from index i on.
RECURSIVE refreshedComponents(_, _, _, _)
refreshedComponents(updatedComponents, componentIds, results, i) ==
    IF i > Len(componentIds) THEN Applied(updatedComponents)
    ELSE IF componentIds[i] \notin DOMAIN updatedComponents THEN Throws
    ELSE refreshedComponents(
            Put(updatedComponents, componentIds[i],
                IF results[i].status = "fulfilled"
                THEN fetchedComponent(updatedComponents[componentIds[i]], results[i].value)
                ELSE failedComponent(updatedComponents[componentIds[i]], results[i].reason)),
            componentIds, results, i + 1)

RefreshUpdater(prev, componentIds, results) ==
    LET updated == refreshedComponents(prev.components, componentIds, results, 1)
    IN  IF updated.throws THEN Throws
        ELSE Applied([prev EXCEPT !.components = updated.state])

\* What refresh_all_components returns once its fetches have settled.
refresh_all_components_response(call) ==
    ToolResponse(TRUE, None, [refreshedCount |-> Len(call.componentIds)])

\* refresh_all_components from the settlement of all its fetches to its return.
refresh_settles(call, responses) ==
    /\ ~crashed
    /\ call \in refreshing
    /\ refreshing' = refreshing \ {call}
    /\ \E order \in SettleOrders(Len(call.componentIds)) :
          setDashboardState(RefreshUpdater(dashboardState, call.componentIds,
                                allSettled(refreshResults(call, responses), order)))
    /\ UNCHANGED <<dashboardStateRef, fetching>>

----------------------------------------------------------------------------
(* The system *)

\* DashboardContent as mounted.
InitDashboard ==
    /\ dashboardState = EMPTY_DASHBOARD
    /\ dashboardStateRef = EMPTY_DASHBOARD
    /\ unsynced = 0
    /\ fetching = {}
    /\ refreshing = {}
    /\ crashed = FALSE

\* The DataFetcher as constructed, with the endpoints given.
InitFetcher(config) ==
    /\ fetcherConfig = config
    /\ cache = NoEntries
    /\ cachedIn = NoEntries
    /\ now = 0
    /\ currentChatId = "chatA"

InitPath == assigned = NotAssigned

NotNavigated(obj) == [called |-> FALSE, obj |-> obj, path |-> <<>>, result |-> NotFound]
NotAnswered == [tool |-> None, success |-> FALSE, rejected |-> FALSE]
InitProbe ==
    /\ navigated = NotNavigated([kind |-> "null", body |-> "null"])
    /\ answered = NotAnswered

\* DashboardContent before its first effects have run, over a store that holds
\* the given snapshots.
NotMounted ==
    [mounted |-> FALSE, dashboardState |-> EMPTY_DASHBOARD, currentChatId |-> None,
     isAnyChatOpen |-> FALSE]
NotSaved == [chatId |-> None, state |-> EMPTY_DASHBOARD]
InitStore(snapshots) ==
    /\ isAnyChatOpen = TRUE
    /\ committed = NotMounted
    /\ opfs = snapshots
    /\ loading = {}
    /\ autosaveTimers = {}
    /\ autosaveTimerRef = 0
    /\ autosaved = NotSaved
InitSession == InitStore([k \in {} |-> None])

Init ==
    /\ InitDashboard
    /\ InitFetcher(ToolsFetcherConfig)
    /\ InitPath
    /\ InitProbe
    /\ InitSession

\* The tools that act on the layout and on one component; refresh_all_components
\* is run with them in NextRefresh.
Next ==
    \/ SyncRef
    \/ \E params \in LayoutParams : set_grid_layout(params)
    \/ \E params \in CreateParams : create_component(params)
    \/ \E params \in MergeUpdates : update_component(params)
    \/ \E params \in FieldUpdates : update_component(params)
    \/ \E params \in WholeUpdates : update_component(params)
    \/ \E params \in IdParams : remove_component(params)
    \/ \E params \in IdParams : get_component(params)
    \/ \E params \in IdParams : fetch_component_data(params)
    \/ \E call \in fetching : \E response \in Responses : fetch_settles(call, response)

Spec == Init /\ [][Next]_vars

\* refresh_all_components with the tools that add, replace and remove
\* components; without fetch_component_data, so that every fetched value on a
\* component was put there by refresh_all_components.
NextRefresh ==
    \/ SyncRef
    \/ set_grid_layout(LayoutA)
    \/ \E params \in CreateParams : create_component(params)
    \/ \E params \in IdParams : remove_component(params)
    \/ \E params \in WholeUpdates : update_component(params)
    \/ refresh_all_components
    \/ \E call \in refreshing :
          \E responses \in [1..Len(call.componentIds) -> Responses] :
              refresh_settles(call, responses)

SpecRefresh == Init /\ [][NextRefresh]_vars

\* Time passes, a millisecond or the default ttl at a time: up to MaxTicks
\* milliseconds, the default ttl, and up to MaxTicks milliseconds more.
MaxTicks == 2
TickSteps == {1, DefaultTtl}
tick(ms) ==
    /\ now + ms <= DefaultTtl + MaxTicks
    /\ (now + ms) % DefaultTtl <= MaxTicks
    /\ now' = now + ms
    /\ UNCHANGED <<fetcherConfig, cache, cachedIn, currentChatId>>
    /\ UNCHANGED <<toolVars, pathVars, probeVars, sessionVars>>

\* The user opens another chat: DashboardContent stays mounted, and with it the
\* tools of its useMemo and their DataFetcher.
ChatIds == {"chatA", "chatB"}
switchChat(chatId) ==
    /\ chatId # currentChatId
    /\ currentChatId' = chatId
    /\ UNCHANGED <<fetcherConfig, cache, cachedIn, now>>
    /\ UNCHANGED <<toolVars, pathVars, probeVars, sessionVars>>

\* The data fetcher alone, called for a component id that the dashboard of
\* every chat holds.
InitCache ==
    /\ InitDashboard
    /\ \E config \in {ToolsFetcherConfig, NoEndpoints} : InitFetcher(config)
    /\ InitPath
    /\ InitProbe
    /\ InitSession

NextCache ==
    \/ \E config \in FetchConfigs : \E response \in Responses :
          \E componentId \in ComponentIds :
              DataFetcher_fetchData(componentId, config, response)
    \/ \E ms \in TickSteps : tick(ms)
    \/ \E chatId \in ChatIds : switchChat(chatId)

SpecCache == InitCache /\ [][NextCache]_vars

\* setValueAtPath(obj, path, value), the object of each call the result of the
\* one before.
assign(path, value) ==
    /\ assigned' = [called |-> TRUE,
                    obj |-> assigned.result,
                    path |-> path,
                    value |-> value,
                    result |-> setValueAtPath(assigned.result, path, value)]
    /\ UNCHANGED <<toolVars, fetcherVars, probeVars, sessionVars>>

InitAssign ==
    /\ InitDashboard
    /\ InitFetcher(ToolsFetcherConfig)
    /\ \E obj \in PathObjects : assigned = Unassigned(obj)
    /\ InitProbe
    /\ InitSession

NextAssign == \E path \in Paths : \E value \in PathValues : assign(path, value)

SpecAssign == InitAssign /\ [][NextAssign]_vars

----------------------------------------------------------------------------
(* Properties of the dashboard state *)

components == dashboardState.components

\* C1: no two components of the dashboard state have the same gridArea.
C1_OneComponentPerGridArea ==
    \A a, b \in DOMAIN components :
        a # b => components[a].gridArea # components[b].gridArea

\* C2: the gridArea of every component is one of the area names of the current
\* grid.templateAreas.
C2_GridAreaInTemplateAreas ==
    \A k \in DOMAIN components :
        isValidGridArea(components[k].gridArea, dashboardState.grid.templateAreas)

\* C3: the component stored under key k has id k; no call, update_component
\* with an id in its updates or with the path $.id or $ included, changes it.
C3_IdIsTheKey ==
    \A k \in DOMAIN components : components[k].id = k

\* C4: a set_grid_layout whose layout is valid and would leave a component of
\* the dashboard without its area returns success=false and changes nothing,
\* however often it is repeated.
C4_OrphaningLayoutIsRejected ==
    [][\A params \in LayoutParams :
          ( /\ validateGridLayout(normalizeParams(params)).valid
            /\ orphanedComponents(dashboardState,
                   extractGridAreas(normalizeParams(params).templateAreas)) # {}
            /\ set_grid_layout(params) )
          => ( /\ ~set_grid_layout_response(params).success
               /\ dashboardState' = dashboardState )]_vars

\* A call of a tool that checks its preconditions and then writes, within one
\* step.
MutatingCall ==
    \/ \E params \in LayoutParams : set_grid_layout(params)
    \/ \E params \in CreateParams : create_component(params)
    \/ \E params \in MergeUpdates : update_component(params)
    \/ \E params \in FieldUpdates : update_component(params)
    \/ \E params \in WholeUpdates : update_component(params)
    \/ \E params \in IdParams : remove_component(params)
    \/ \E params \in IdParams : fetch_component_data(params)

\* C5: the write of a mutating call is applied to the state its preconditions
\* were read from, whatever calls and ref synchronisations came before it.
C5_WriteAppliesToTheStateRead ==
    [][(MutatingCall /\ dashboardState' # dashboardState)
          => getDashboardState = dashboardState]_vars

\* C6: create_component with an id that exists, an area that is not in the
\* layout, or an area that holds a component, returns success=false and
\* changes nothing.
C6_CreateIsRejected ==
    [][\A params \in CreateParams :
          ( /\ \/ params.id \in DOMAIN components
               \/ ~isValidGridArea(params.gridArea, dashboardState.grid.templateAreas)
               \/ isGridAreaOccupied(params.gridArea, dashboardState)
            /\ create_component(params) )
          => ( /\ ~create_component_response(params).success
               /\ dashboardState' = dashboardState )]_vars

\* C7: create_component with an unused id and a valid, unoccupied area returns
\* success=true, and what it inserts is one component of the given type,
\* gridArea and dataConfig with fetchStatus idle.
C7_CreateSucceeds ==
    \A params \in CreateParams :
        ( /\ ~crashed
          /\ params.id \notin DOMAIN components
          /\ isValidGridArea(params.gridArea, dashboardState.grid.templateAreas)
          /\ ~isGridAreaOccupied(params.gridArea, dashboardState) )
        => /\ create_component_response(params).success
           /\ LET component == create_component_response(params).data.component
              IN  /\ component.id = params.id
                  /\ component.type = params.type
                  /\ component.gridArea = params.gridArea
                  /\ component.dataConfig = params.dataConfig
                  /\ component.metadata.fetchStatus = "idle"

\* C8: after a successful remove_component the component is gone, the other
\* components and the grid are as before, and a create_component that follows
\* with a fresh id in the area of the removed component succeeds.
C8_RemoveFreesTheArea ==
    [][\A params \in IdParams :
          ( /\ params.id \in DOMAIN components
            /\ remove_component_response(params).success
            /\ remove_component(params) )
          => /\ params.id \notin DOMAIN dashboardState'.components
             /\ \A k \in DOMAIN components \ {params.id} :
                   /\ k \in DOMAIN dashboardState'.components
                   /\ dashboardState'.components[k] = components[k]
             /\ dashboardState'.grid = dashboardState.grid
             /\ \A next \in CreateParams :
                   ( /\ next.id \notin DOMAIN dashboardState'.components
                     /\ next.gridArea = components[params.id].gridArea
                     /\ isValidGridArea(next.gridArea, dashboardState'.grid.templateAreas)
                     /\ ~isGridAreaOccupied(next.gridArea, dashboardState') )
                   => create_component_response(next)'.success]_vars

\* C9: update_component, remove_component, fetch_component_data and
\* get_component, called with an id the dashboard state does not hold, return
\* success=false; none writes and none fetches.
C9_AbsentIdIsRejected ==
    ~crashed =>
        /\ \A params \in MergeUpdates :
              params.id \notin DOMAIN components
                  => ~update_component_response(params).success
        /\ \A params \in FieldUpdates :
              params.id \notin DOMAIN components
                  => ~update_component_response(params).success
        /\ \A params \in WholeUpdates :
              params.id \notin DOMAIN components
                  => ~update_component_response(params).success
        /\ \A params \in IdParams :
              params.id \notin DOMAIN components
                  => /\ ~remove_component_response(params).success
                     /\ ~fetch_component_data_check(params).success
                     /\ ~get_component_response(params).success

\* The request to the source endpoint of the configuration fails, or is
\* answered with a status outside 2xx.
SourceUnreachable(config, response) ==
    /\ config.source.type \in {"postgresql", "graphql"}
    /\ response \in {"networkError", "non2xx"}

C11_RejectedFetchEndsInError ==
    [][\A call \in fetching : \A response \in Responses :
          ( /\ fetch_settles(call, response)
            /\ fetchData(call.id, call.dataConfig, response).status = "rejected" )
          => LET reason == fetchData(call.id, call.dataConfig, response).reason
             IN  /\ ~fetch_component_data_response(call, response).success
                 /\ fetch_component_data_response(call, response).error = reason
                 /\ call.id \in DOMAIN components
                 /\ call.id \in DOMAIN dashboardState'.components
                 /\ dashboardState'.components[call.id].metadata.fetchStatus = "error"
                 /\ dashboardState'.components[call.id].metadata.error = reason
                 /\ dashboardState'.components[call.id].data = components[call.id].data]_vars

\* C12: when the fetch of fetch_component_data resolves, the component's data
\* is the resolved value, its fetchStatus is success and its metadata.error is
\* cleared, its id, type, gridArea, title and dataConfig are those it has when
\* the fetch settles, and the call returns success=true with the data.
C12_ResolvedFetchEndsInSuccess ==
    [][\A call \in fetching : \A response \in Responses :
          ( /\ fetch_settles(call, response)
            /\ fetchData(call.id, call.dataConfig, response).status = "fulfilled" )
          => LET value == fetchData(call.id, call.dataConfig, response).value
             IN  /\ fetch_component_data_response(call, response).success
                 /\ fetch_component_data_response(call, response).data = value
                 /\ call.id \in DOMAIN components
                 /\ call.id \in DOMAIN dashboardState'.components
                 /\ LET before == components[call.id]
                        after == dashboardState'.components[call.id]
                    IN  /\ after.data = value
                        /\ after.metadata.fetchStatus = "success"
                        /\ after.metadata.error = None
                        /\ after.id = before.id
                        /\ after.type = before.type
                        /\ after.gridArea = before.gridArea
                        /\ after.title = before.title
                        /\ after.dataConfig = before.dataConfig]_vars

\* C13: a component with fetchStatus=loading has a fetch_component_data call
\* awaiting its fetch: once the fetch has settled the component is not left
\* loading, whatever other calls were made on it.
C13_LoadingOnlyWhileFetching ==
    \A k \in DOMAIN components :
        components[k].metadata.fetchStatus = "loading"
            => \E call \in fetching : call.id = k

\* C14: in refresh_all_components the update applied to a component is
\* determined by the settlement of the fetch issued for that component's id
\* alone, in whatever order the fetches settle: the result taken for index i is
\* the settlement of fetch i, and the component written for id i is the one it
\* was, with that settlement applied.  Stated of every call in flight, every
\* way its fetches can settle and every order they can settle in; the second
\* part of the calls whose components are all in the state.
C14_UpdateFollowsOwnFetch ==
    \A call \in refreshing :
        \A responses \in [1..Len(call.componentIds) -> Responses] :
            LET promises == refreshResults(call, responses)
                own(k) == promises[CHOOSE i \in 1..Len(call.componentIds) :
                                      call.componentIds[i] = k]
                expected ==
                    [k \in DOMAIN components |->
                        IF k \notin Range(call.componentIds) THEN components[k]
                        ELSE IF own(k).status = "fulfilled"
                        THEN fetchedComponent(components[k], own(k).value)
                        ELSE failedComponent(components[k], own(k).reason)]
            IN  /\ \A order \in SettleOrders(Len(call.componentIds)) :
                      allSettled(promises, order) = promises
                /\ (\A i \in 1..Len(call.componentIds) :
                        call.componentIds[i] \in DOMAIN components)
                    => RefreshUpdater(dashboardState, call.componentIds, promises)
                         = Applied([dashboardState EXCEPT !.components = expected])

\* C14's case has happened: a refresh of two components has settled, and each
\* holds the value of its own source, the static payload in one and the rows of
\* the query in the other.
C14_EachRefreshedFromItsOwnSource ==
    \E a, b \in DOMAIN components :
        /\ a # b
        /\ components[a].dataConfig.source.type = "static"
        /\ components[a].metadata.fetchStatus = "success"
        /\ components[a].data = StaticPayload
        /\ components[b].dataConfig.source.type = "postgresql"
        /\ components[b].metadata.fetchStatus = "success"
        /\ components[b].data = QueryRows

\* C15: when the fetches of refresh_all_components have settled, a component
\* whose fetch rejected has fetchStatus=error and the data it had, a component
\* whose fetch was fulfilled has the fetched data and fetchStatus=success, no
\* other component is touched, and the call returns success=true with
\* refreshedCount the number of components it read when called.  Stated of
\* every call in flight, every way its fetches can settle and every order.
C15_RefreshSettlesEachComponent ==
    \A call \in refreshing :
        \A responses \in [1..Len(call.componentIds) -> Responses] :
            \A order \in SettleOrders(Len(call.componentIds)) :
                LET results == allSettled(refreshResults(call, responses), order)
                    update == RefreshUpdater(dashboardState, call.componentIds, results)
                IN  /\ refresh_all_components_response(call).success
                    /\ refresh_all_components_response(call).data.refreshedCount
                           = Len(call.componentIds)
                    /\ ~update.throws
                    /\ DOMAIN update.state.components = DOMAIN components
                    /\ \A k \in DOMAIN components :
                          k \notin Range(call.componentIds)
                              => update.state.components[k] = components[k]
                    /\ \A i \in 1..Len(call.componentIds) :
                          LET before == components[call.componentIds[i]]
                              after == update.state.components[call.componentIds[i]]
                          IN  IF results[i].status = "rejected"
                              THEN /\ after.metadata.fetchStatus = "error"
                                   /\ after.data = before.data
                              ELSE /\ after.metadata.fetchStatus = "success"
                                   /\ after.data = results[i].value

\* The ttl T of C16: the ttl of the configuration, 60000 when it gives none.
ttlOf(cacheConfig) ==
    IF "ttl" \in DOMAIN cacheConfig THEN cacheConfig.ttl ELSE DefaultTtl

\* C16: with the cache enabled and ttl T (60000 when unspecified), a fetchData
\* call made no more than T ms after the cached entry's timestamp returns the
\* cached value without going to the source or the transforms, and leaves the
\* entry as it is; a call made more than T ms after it goes to the source and
\* stores the new result under a new timestamp.  Stated of every cached entry
\* and of every call that could be made now.
C16_CacheHonoursTtl ==
    \A componentId \in DOMAIN cache :
        \A config \in FetchConfigs : \A response \in Responses :
            config.cache.enabled =>
                LET result == DataFetcher_fetchData_result(componentId, config, response)
                    entries == DataFetcher_fetchData_cache(componentId, config, response)
                    fresh == fetchData(componentId, config, response)
                IN  IF now - cache[componentId].timestamp <= ttlOf(config.cache)
                    THEN /\ result = Fulfilled(cache[componentId].data)
                         /\ entries = cache
                    ELSE /\ result = fresh
                         /\ fresh.status = "fulfilled"
                              => /\ componentId \in DOMAIN entries
                                 /\ entries[componentId]
                                      = [data |-> fresh.value, timestamp |-> now]

\* The source of a configuration fails: its endpoint is not configured, the
\* request fails or is answered non-2xx, or the GraphQL answer carries errors.
SourceFails(source, response) ==
    \/ /\ source.type = "postgresql"
       /\ mcpPostgresEndpoint = None \/ response \in {"networkError", "non2xx"}
    \/ /\ source.type = "graphql"
       /\ \/ "endpoint" \notin DOMAIN source /\ fetcherGraphqlEndpoint = None
          \/ response \in {"networkError", "non2xx", "graphqlErrors"}

\* A transform of the configuration fails on whatever it is given.
TransformFails(config) ==
    \/ config.handlebarsTemplate = BadTemplate
    \/ config.alasqlTransform = BadQuery

\* C17: fetchData does not reject because its source failed (endpoint not
\* configured, transport failure, non-2xx, GraphQL errors): it resolves to the
\* soft error value; it rejects whenever the template or the query transform
\* fails, and a value served from the cache is a resolved one.  Stated of every
\* call that could be made now.
C17_SourceFailuresResolve ==
    \A componentId \in ComponentIds :
        \A config \in FetchConfigs : \A response \in Responses :
            LET result == DataFetcher_fetchData_result(componentId, config, response)
            IN  IF cacheHit(componentId, config)
                THEN result.status = "fulfilled"
                ELSE /\ TransformFails(config) => result.status = "rejected"
                     /\ ( /\ SourceFails(config.source, response)
                          /\ ~TransformFails(config) )
                         => /\ result.status = "fulfilled"
                            /\ IsSoftError(result.value)

\* C17's case has happened: a fetcher without endpoints was asked for the data
\* of a PostgreSQL source, and the soft error it resolved to is in its cache.
C17_SoftErrorWasCached ==
    /\ fetcherConfig = NoEndpoints
    /\ \E k \in DOMAIN cache :
          cache[k].data = SoftError("PostgreSQL endpoint not configured")

\* C20: a value cached in one chat session is not returned to a fetch made in
\* another, the component id being the same: whenever a fetchData call that
\* could be made now would be served from the cache, the entry was stored in
\* the chat that is open now.
C20_CacheStaysInItsChat ==
    \A componentId \in ComponentIds :
        \A config \in FetchConfigs :
            cacheHit(componentId, config) => cachedIn[componentId] = currentChatId

\* C18: no state updater that a tool schedules throws, in any reachable state,
\* a component removed while its fetch is in flight included.
C18_NoUpdaterThrows == ~crashed

\* C19: after setValueAtPath(obj, p, v), navigating the result by p finds the
\* value: exists is true and the value is v, also when a segment of p before
\* the last is absent from obj.
C19_AssignedValueIsRead ==
    assigned.called
        => /\ navigateToPath(assigned.result, assigned.path).exists
           /\ navigateToPath(assigned.result, assigned.path).value = assigned.value

----------------------------------------------------------------------------
(* The layout tools alone *)

\* set_grid_layout over well-formed and malformed layouts, with the tools that
\* fill and empty the areas.
NextLayout ==
    \/ SyncRef
    \/ \E params \in LayoutInputs : set_grid_layout(params)
    \/ \E params \in CreateParams : create_component(params)
    \/ \E params \in IdParams : remove_component(params)

SpecLayout == Init /\ [][NextLayout]_vars

\* The areas the page renders.
gridAreas == gridAreasOf(dashboardState.grid.templateAreas)

\* A row as the agent meant it, without the quote characters around it.
Unquoted(row) == SelectSeq(row, LAMBDA t : t # QUOTE)

\* The rows of the layout have differing token counts, or the cells of one of
\* its area names are not one rectangular block.
Malformed(params) ==
    LET rows == [i \in 1..Len(params.templateAreas) |-> Unquoted(params.templateAreas[i])]
        names == {t \in Range(ConcatRows(rows)) : t # DOT}
    IN  \/ \E i, j \in 1..Len(rows) : Len(RowTokens(rows[i])) # Len(RowTokens(rows[j]))
        \/ \E a \in names : ~IsRectangle(CellsOf(a, rows))

Spaces(k) == [i \in 1..k |-> SP]

\* given with one quote character taken from its start, one from its end, and
\* the whitespace at both ends removed.
IsStripped(row, given) ==
    LET a == IF given # <<>> /\ given[1] = QUOTE THEN 1 ELSE 0
        b == IF Len(given) > a /\ given[Len(given)] = QUOTE THEN 1 ELSE 0
        inner == SubSeq(given, 1 + a, Len(given) - b)
    IN  /\ \E m, n \in 0..Len(inner) : inner = Spaces(m) \o row \o Spaces(n)
        /\ row # <<>> => row[1] # SP /\ row[Len(row)] # SP

\* C26: a successful set_grid_layout replaces grid with exactly the columns,
\* rows and gap sent and the templateAreas sent, each row stripped of one leading
\* and one trailing quote character and trimmed, and leaves components,
\* metadata, postgresSchema and graphqlEndpoint as they were.
C26_LayoutReplacesGridOnly ==
    [][\A params \in LayoutInputs :
          ( /\ set_grid_layout(params)
            /\ set_grid_layout_response(params).success )
          => /\ DOMAIN dashboardState' = DOMAIN dashboardState
             /\ DOMAIN dashboardState'.grid = {"columns", "rows", "gap", "templateAreas"}
             /\ dashboardState'.grid.columns = params.columns
             /\ dashboardState'.grid.rows = params.rows
             /\ dashboardState'.grid.gap = params.gap
             /\ Len(dashboardState'.grid.templateAreas) = Len(params.templateAreas)
             /\ \A i \in 1..Len(params.templateAreas) :
                   IsStripped(dashboardState'.grid.templateAreas[i], params.templateAreas[i])
             /\ dashboardState'.components = dashboardState.components
             /\ dashboardState'.metadata = dashboardState.metadata
             /\ dashboardState'.postgresSchema = dashboardState.postgresSchema
             /\ dashboardState'.graphqlEndpoint = dashboardState.graphqlEndpoint]_vars

\* C26's case has happened: the grid is the layout that was sent with quotes
\* around its first row, without them, and the dashboard has a component.
C26_QuotedLayoutStoredStripped ==
    /\ dashboardState.grid.columns = LayoutA.columns
    /\ dashboardState.grid.templateAreas = <<RowHeaderHeader, RowSidebarMain>>
    /\ DOMAIN components # {}

\* How long a row template may be, in lexemes.
MaxRowLen == 3

\* Row templates of names, "." and whitespace, and templates of up to two rows.
RowLexemes == {"a", "b", DOT, SP}
RowTemplates == UNION {[1..n -> RowLexemes] : n \in 0..MaxRowLen}
Templates ==
    {<<>>} \cup {<<r>> : r \in RowTemplates}
           \cup {<<r1, r2>> : r1 \in RowTemplates, r2 \in {<<"b", SP, "a">>, <<DOT, SP, "c">>}}

\* The position of the first occurrence of a token in a sequence.
FirstIndex(tokens, t) == CHOOSE i \in 1..Len(tokens) :
                             tokens[i] = t /\ \A j \in 1..(i - 1) : tokens[j] # t

\* areas holds each name of the rows once, in the order the names first occur,
\* and nothing else.
ListsTheNames(areas, rows) ==
    LET tokens == ConcatRows(rows)
    IN  /\ \A i, j \in 1..Len(areas) : areas[i] = areas[j] => i = j
        /\ Range(areas) = Range(tokens) \ {DOT}
        /\ \A i, j \in 1..Len(areas) :
              i < j => FirstIndex(tokens, areas[i]) < FirstIndex(tokens, areas[j])
        /\ DOT \notin Range(areas) /\ SP \notin Range(areas)

\* C30 over the row templates: both extractions list the names.
AllTemplatesListed ==
    \A rows \in Templates :
        /\ ListsTheNames(gridAreasOf(rows), rows)
        /\ extractGridAreas(rows) = gridAreasOf(rows)

\* C30: the extracted grid areas hold each area name once, in first-seen order,
\* never "." or an empty token, and exactly the names that occur as
\* whitespace-separated tokens in some row: for the templateAreas of the
\* dashboard, which the page renders, and for every row template.
C30_AreasAreTheNamesOnce ==
    /\ ListsTheNames(gridAreas, dashboardState.grid.templateAreas)
    /\ extractGridAreas(dashboardState.grid.templateAreas) = gridAreas
    /\ AllTemplatesListed

\* C30's case has happened: the layout with an unnamed cell and a name in two
\* cells is rendered as its two names.
C30_DottedLayoutRendered ==
    /\ dashboardState.grid.templateAreas = LayoutDotted.templateAreas
    /\ gridAreas = <<"header", "main">>

\* update_component without a path, its updates carrying a metadata field.
MetadataUpdates ==
    {[id |-> "c1", path |-> NoPath,
      updates |-> [title |-> "Renamed", metadata |-> [createdAt |-> "then", note |-> "pinned"]]]}

\* The component overlaid with every field of updates, its id kept and
\* metadata.updatedAt stamped.
overlaid(component, params) ==
    LET merged == Spread(component, params.updates)
    IN  Spread(merged, [id |-> params.id,
                        metadata |-> Spread(merged.metadata, [updatedAt |-> Now])])

\* C25: update_component on a component of the dashboard succeeds, and the
\* component it writes under params.id is, without a path, that component
\* overlaid with every field of updates, id kept and metadata.updatedAt
\* stamped; with the path of a field, that component with updates at the path
\* and its other fields kept; with the path $, updates itself.
C25_UpdateWritesTheOverlay ==
    /\ \A params \in MergeUpdates \cup MetadataUpdates :
          params.id \in DOMAIN components
              => /\ update_component_response(params).success
                 /\ update_component_response(params).data
                        = overlaid(components[params.id], params)
    /\ \A params \in FieldUpdates :
          params.id \in DOMAIN components
              => /\ update_component_response(params).success
                 /\ LET written == update_component_response(params).data
                        field == params.path[Len(params.path)]
                    IN  /\ navigateToPath(written, params.path).exists
                        /\ navigateToPath(written, params.path).value = params.updates
                        /\ DOMAIN written = DOMAIN components[params.id]
                        /\ \A k \in DOMAIN written \ {field} :
                              written[k] = components[params.id][k]
    /\ \A params \in WholeUpdates :
          params.id \in DOMAIN components
              => /\ update_component_response(params).success
                 /\ update_component_response(params).data = params.updates

----------------------------------------------------------------------------
(* The data fetcher and its transforms *)

\* Configurations with a template, a query transform, both or neither, over a
\* static source and over a source that answers with rows.
TransformConfigs ==
    {[source |-> source, handlebarsTemplate |-> template, alasqlTransform |-> transform,
      cache |-> cacheConfig] :
        source \in {[type |-> "static", data |-> StaticPayload],
                    [type |-> "postgresql", query |-> "SELECT 1"]},
        template \in {None, TemplateList, TemplateCard, TemplateText},
        transform \in {None, QueryTotals},
        cacheConfig \in {[enabled |-> TRUE, ttl |-> 1], NoCache}}

NextTransform ==
    \/ \E config \in TransformConfigs : \E response \in {"ok", "non2xx"} :
          DataFetcher_fetchData("c1", config, response)
    \/ \E ms \in TickSteps : tick(ms)

SpecTransform == InitCache /\ [][NextTransform]_vars

\* What the source of a configuration answers with.
rawData(config, response) == fetchFromSource(config.source, response).value

\* The data a query transform is run on.
queried(data) == IF isArray(data) THEN data ELSE ArrayOf(data)

\* C27: a fetch that is not answered from the cache returns, and with the cache
\* enabled stores, the output of the last configured step: the query transform
\* runs on the output of the template when there is one and on the raw data
\* otherwise, wrapped in a one-element sequence unless it is a sequence
\* already; the template alone returns its rendering of the raw data; a static
\* source without transforms returns its data as they are.
C27_TemplateThenQuery ==
    [][\A config \in TransformConfigs : \A response \in {"ok", "non2xx"} :
          (~cacheHit("c1", config) /\ DataFetcher_fetchData("c1", config, response))
              => LET raw == rawData(config, response)
                     returned == DataFetcher_fetchData_result("c1", config, response)
                     rendered == [kind |-> renderedKind(config.handlebarsTemplate),
                                  body |-> config.handlebarsTemplate, data |-> raw]
                     last == IF config.alasqlTransform # None
                             THEN [kind |-> "rows", body |-> config.alasqlTransform,
                                   data |-> IF config.handlebarsTemplate # None
                                            THEN queried(rendered) ELSE queried(raw)]
                             ELSE IF config.handlebarsTemplate # None THEN rendered
                             ELSE raw
                 IN  /\ returned = Fulfilled(last)
                     /\ config.cache.enabled => cache'["c1"].data = last
                     /\ (config.source.type = "static" /\ config.handlebarsTemplate = None
                            /\ config.alasqlTransform = None)
                          => returned.value = config.source.data]_vars

\* The cache holds the rows of a query that ran on the one-element sequence of
\* the text a template rendered.
C27_QueryRanOnWrappedText ==
    /\ "c1" \in DOMAIN cache
    /\ cache["c1"].data.kind = "rows"
    /\ "data" \in DOMAIN cache["c1"].data
    /\ cache["c1"].data.data = ArrayOf([kind |-> "string", body |-> TemplateText,
                                        data |-> StaticPayload])

----------------------------------------------------------------------------
(* navigateToPath alone *)

\* Values with null, a number, an array or nothing where a path goes through.
NavObjects ==
    {[a |-> [b |-> Leaf("1")]],
     [a |-> [d |-> Leaf("1")]],
     [c |-> [b |-> Leaf("1")]],
     [a |-> NullData],
     [a |-> [b |-> NullData]],
     [a |-> NumberValue("5")],
     [a |-> [b |-> NumberValue("5")]],
     [a |-> ArrayValue(<<>>)],
     [a |-> ArrayValue(<<[b |-> Leaf("1")]>>)],
     [a |-> ArrayValue(<<NullData, [b |-> Leaf("1")]>>)],
     [a |-> ArrayValue(<<NumberValue("5")>>)],
     NullData}

NavPaths ==
    {<<>>, <<"$">>, <<"$", ".">>, <<"$", ".", "a">>, <<"$", ".", "a", ".", "b">>,
     <<"a", ".", "b">>, <<"$", ".", "a", ".", "b", ".", "n">>,
     <<"$", ".", "c", ".", "b", ".", "n">>,
     <<"$", ".", "a", "[", "0", "]", ".", "b">>,
     <<"$", ".", "a", "[", "1", "]", ".", "b", ".", "n">>,
     <<"$", ".", "a", "[", "2", "]">>}

\* One call of navigateToPath on the value under inspection.
navigate(path) ==
    /\ navigated' = [called |-> TRUE, obj |-> navigated.obj, path |-> path,
                     result |-> navigateToPath(navigated.obj, path)]
    /\ UNCHANGED <<toolVars, fetcherVars, pathVars, answered, sessionVars>>

InitNavigate ==
    /\ InitDashboard
    /\ InitFetcher(ToolsFetcherConfig)
    /\ InitPath
    /\ \E obj \in NavObjects : navigated = NotNavigated(obj)
    /\ answered = NotAnswered
    /\ InitSession

NextNavigate == \E path \in NavPaths : navigate(path)

SpecNavigate == InitNavigate /\ [][NextNavigate]_vars

\* obj[key] as JavaScript reads it where it does not throw, Missing for
\* undefined.
Missing == Undefined
Member(v, key) ==
    IF IsNullish(v) \/ v = Missing \/ IsPrimitive(v) THEN Missing
    ELSE IF IsArrayValue(v)
         THEN IF parseInt(key) # NaN /\ parseInt(key) < Len(v.items)
              THEN v.items[parseInt(key) + 1] ELSE Missing
    ELSE IF key \in DOMAIN v THEN v[key] ELSE Missing

RECURSIVE ValueAt(_, _)
ValueAt(v, parts) ==
    IF parts = <<>> THEN v ELSE ValueAt(Member(v, parts[1]), Tail(parts))

\* A segment before the last resolves to null or to nothing.
BrokenBeforeTheEnd(obj, path) ==
    \E i \in 1..(Len(pathParts(path)) - 1) :
        LET reached == ValueAt(obj, SubSeq(pathParts(path), 1, i))
        IN  IsNullish(reached) \/ reached = Missing

\* C28: navigateToPath returns without throwing and reports exists=false when
\* a segment before the last resolves to null or is absent; for the path $ and
\* for the empty path it returns the whole value with exists=true.
C28_NavigateDoesNotThrow ==
    navigated.called
        => /\ BrokenBeforeTheEnd(navigated.obj, navigated.path)
                => ~navigated.result.throws /\ ~navigated.result.exists
           /\ navigated.path \in {<<>>, <<"$">>}
                => /\ ~navigated.result.throws
                   /\ navigated.result.exists
                   /\ navigated.result.value = navigated.obj

\* A path of three segments was walked into a value whose first segment is
\* null.
C28_WalkedIntoNull ==
    /\ navigated.called
    /\ navigated.obj = [a |-> NullData]
    /\ navigated.path = <<"$", ".", "a", ".", "b", ".", "n">>
    /\ navigated.result = NotFound

----------------------------------------------------------------------------
(* The reading tools among the writing ones *)

NextRead ==
    \/ SyncRef
    \/ set_grid_layout(LayoutA)
    \/ \E params \in {p \in CreateParams : p.id = "c1"} : create_component(params)
    \/ \E params \in SchemaParams : set_postgres_schema(params)
    \/ DataFetcher_fetchData("c1", CachedCfg([type |-> "static", data |-> StaticPayload],
                                             [enabled |-> TRUE]), "ok")
    \/ get_dashboard
    \/ \E params \in IdParams : get_component_answers(params)
    \/ get_grid_info
    \/ get_postgres_schema
    \/ \E params \in QueryParams : query_postgres_schema(params)
    \/ \E params \in ChartParams : generate_chart_template(params)
    \/ \E params \in TableParams : generate_table_template(params)

SpecRead == Init /\ [][NextRead]_vars

\* A call of one of the tools that read.
ReadCall ==
    \/ get_dashboard
    \/ \E params \in IdParams : get_component_answers(params)
    \/ get_grid_info
    \/ get_postgres_schema
    \/ \E params \in QueryParams : query_postgres_schema(params)
    \/ \E params \in ChartParams : generate_chart_template(params)
    \/ \E params \in TableParams : generate_table_template(params)

\* C22: a call of get_dashboard, get_component, get_grid_info,
\* get_postgres_schema, query_postgres_schema, generate_chart_template or
\* generate_table_template leaves the dashboard state and the cache of the data
\* fetcher as they were, whatever it is given and however it ends.
C22_ReadingToolsWriteNothing ==
    [][ReadCall => dashboardState' = dashboardState /\ cache' = cache]_vars

\* query_postgres_schema has rejected on a dashboard that holds a component, a
\* schema and a cached fetch.
C22_QueryRejectedOnFilledDashboard ==
    /\ answered.tool = "query_postgres_schema"
    /\ answered.rejected
    /\ dashboardState.postgresSchema = SchemaBare
    /\ "c1" \in DOMAIN dashboardState.components
    /\ "c1" \in DOMAIN cache

\* The tables of a stored schema, none when it lists none.
TablesOf(schema) == IF "tables" \in DOMAIN schema THEN schema.tables ELSE <<>>

\* The tables a query names: those of the name, in the schema when one is given.
Named(schema, params) ==
    SelectSeq(TablesOf(schema), LAMBDA t :
        /\ t.name = params.tableName
        /\ (params.schemaName = None \/ t.schema = params.schemaName))

\* C29: with no schema stored in the dashboard state query_postgres_schema
\* answers success=false; with a schema stored, get_postgres_schema returns it,
\* and query_postgres_schema returns a ToolResponse: for a tableName the first
\* stored table of that name (and of the schemaName given), or success=false
\* when there is none; for a schemaName alone exactly the tables of that
\* schema; for neither all schemas.
C29_SchemaToolsAnswerFromTheStoredSchema ==
    LET stored == dashboardState.postgresSchema
    IN  /\ NoSchemaStored(dashboardState)
            => \A params \in QueryParams :
                   /\ "success" \in DOMAIN query_postgres_schema_response(params)
                   /\ ~query_postgres_schema_response(params).success
        /\ ~NoSchemaStored(dashboardState)
            => /\ get_postgres_schema_response.success
               /\ get_postgres_schema_response.data = stored
               /\ \A params \in QueryParams :
                     LET response == query_postgres_schema_response(params)
                     IN  /\ "success" \in DOMAIN response
                         /\ IF params.tableName # None
                            THEN IF Named(stored, params) = <<>>
                                 THEN ~response.success
                                 ELSE /\ response.success
                                      /\ response.data = Named(stored, params)[1]
                            ELSE IF params.schemaName # None
                            THEN /\ response.success
                                 /\ response.data
                                      = SelectSeq(TablesOf(stored),
                                                  LAMBDA t : t.schema = params.schemaName)
                            ELSE /\ response.success
                                 /\ response.data = stored.schemas

----------------------------------------------------------------------------
(* Sessions: loading the dashboard of a chat, saving it on a timer *)

\* localStorage holds no chat id of its own.
readStoredChatId == None

\* currentChatId || readStoredChatId() || undefined
resolveActiveChatId == IF currentChatId # None THEN currentChatId ELSE readStoredChatId

\* loadLatestDashboard(id) resolved: the snapshot of the chat, or null.
loadLatestDashboard(store, id) == IF id \in DOMAIN store THEN store[id] ELSE NullData

\* latest || EMPTY_DASHBOARD
latestOrEmpty(latest) == IF latest = NullData THEN EMPTY_DASHBOARD ELSE latest

\* A clean-up that leaves the timer of the previous run alone.
clearTimeout_never(timers, handle) == timers

\* window.clearTimeout(handle)
clearTimeout(timers, handle) == {t \in timers : t.handle # handle}

\* window.setTimeout: a handle no live timer has.
newHandle(timers) ==
    CHOOSE h \in 1..(Cardinality(timers) + 1) :
        /\ \A t \in timers : t.handle # h
        /\ \A g \in 1..(h - 1) : \E t \in timers : t.handle = g

\* A clean-up that leaves the load of the run before to be applied.
cancelLoads_never(loads) == loads

\* return () => { cancelled = true }: the loads of the run before are still
\* awaited, and what they resolve with is dropped at "if (cancelled) return".
cancelLoads(loads) == {}

\* React commits a render and runs the effects whose dependencies changed: the
\* ref is given the state; when the chat changed, the load awaited is cancelled
\* and the dashboard of the active chat is asked for; the timer of the last
\* run is cleared and, with a chat open, a new one is set.
commit ==
    LET deps == [mounted |-> TRUE, dashboardState |-> dashboardState,
                 currentChatId |-> currentChatId, isAnyChatOpen |-> isAnyChatOpen]
        chatChanged == \/ ~committed.mounted
                       \/ committed.currentChatId # currentChatId
                       \/ committed.isAnyChatOpen # isAnyChatOpen
        id == resolveActiveChatId
        cleared == clearTimeout(autosaveTimers, autosaveTimerRef)
    IN  /\ ~crashed
        /\ deps # committed
        /\ committed' = deps
        /\ dashboardStateRef' = dashboardState
        /\ unsynced' = 0
        /\ loading' = IF ~chatChanged THEN loading
                      ELSE IF id = None THEN cancelLoads(loading)
                      ELSE cancelLoads(loading) \cup
                               {[id |-> id, previous |-> dashboardState,
                                 snapshot |-> loadLatestDashboard(opfs, id)]}
        /\ IF id = None \/ ~isAnyChatOpen
           THEN /\ autosaveTimers' = cleared
                /\ UNCHANGED autosaveTimerRef
           ELSE /\ autosaveTimers' = cleared \cup {[handle |-> newHandle(cleared), id |-> id]}
                /\ autosaveTimerRef' = newHandle(cleared)
        /\ UNCHANGED <<dashboardState, fetching, refreshing, crashed>>
        /\ UNCHANGED <<isAnyChatOpen, opfs, autosaved>>
        /\ UNCHANGED <<fetcherVars, pathVars, probeVars>>

\* The promise of loadLatestDashboard settles: resolved, the state is set to
\* what the store holds for the chat or to the empty dashboard; rejected, the
\* error is logged.
load_settles(load, outcome) ==
    /\ ~crashed
    /\ load \in loading
    /\ loading' = loading \ {load}
    /\ IF outcome = "resolved"
       THEN /\ unsynced < MaxUnsynced
            /\ unsynced' = unsynced + 1
            /\ dashboardState' = latestOrEmpty(loadLatestDashboard(opfs, load.id))
       ELSE UNCHANGED <<dashboardState, unsynced>>
    /\ UNCHANGED <<dashboardStateRef, fetching, refreshing, crashed>>
    /\ UNCHANGED <<isAnyChatOpen, committed, opfs, autosaveTimers, autosaveTimerRef, autosaved>>
    /\ UNCHANGED <<fetcherVars, pathVars, probeVars>>

\* A timer fires: saveDashboardVersion(id, '__latest', dashboardStateRef.current),
\* whose failure is logged.
autosave_fires(timer, outcome) ==
    /\ ~crashed
    /\ timer \in autosaveTimers
    /\ autosaveTimers' = autosaveTimers \ {timer}
    /\ autosaved' = [chatId |-> timer.id, state |-> dashboardStateRef]
    /\ opfs' = IF outcome = "saved" THEN Put(opfs, timer.id, dashboardStateRef) ELSE opfs
    /\ UNCHANGED <<isAnyChatOpen, committed, loading, autosaveTimerRef>>
    /\ UNCHANGED <<toolVars, fetcherVars, pathVars, probeVars>>

\* The chat panel is opened or closed.
toggleChat ==
    /\ isAnyChatOpen' = ~isAnyChatOpen
    /\ UNCHANGED <<committed, opfs, loading, autosaveTimers, autosaveTimerRef, autosaved>>
    /\ UNCHANGED <<toolVars, fetcherVars, pathVars, probeVars>>

\* A dashboard saved for chatB in an earlier visit.
StoredDashboard == [EMPTY_DASHBOARD EXCEPT !.grid = newGrid(LayoutB)]

InitSessions ==
    /\ InitDashboard
    /\ InitFetcher(ToolsFetcherConfig)
    /\ InitPath
    /\ InitProbe
    /\ \E snapshots \in {[k \in {} |-> None], [k \in {"chatB"} |-> StoredDashboard]} :
          InitStore(snapshots)

NextSession ==
    \/ commit
    \/ \E load \in loading : \E outcome \in {"resolved", "rejected"} : load_settles(load, outcome)
    \/ \E timer \in autosaveTimers : \E outcome \in {"saved", "failed"} :
          autosave_fires(timer, outcome)
    \/ \E chatId \in ChatIds : switchChat(chatId)
    \/ toggleChat
    \/ set_grid_layout(LayoutA)

SpecSession == InitSessions /\ [][NextSession]_vars

FairSpecSession ==
    /\ SpecSession
    /\ WF_vars(commit)
    /\ WF_vars(\E timer \in autosaveTimers : \E outcome \in {"saved", "failed"} :
                  autosave_fires(timer, outcome))

\* A step in which a timer fires.
Fires ==
    \E timer \in autosaveTimers : \E outcome \in {"saved", "failed"} :
        autosave_fires(timer, outcome)

\* C24: the only timer that can fire is the one the last run of the autosave
\* effect has set, so that a timer set by an earlier change does not fire once
\* a later change has set another; a timer goes by firing or by a later run of
\* the effect, and its firing is a save of the state the ref then holds under
\* the '__latest' key of the chat it was set for; and every timer set is in
\* time gone, so that the timer of the last change fires.
C24_LastTimerFiresTheSave ==
    /\ [](\A t \in autosaveTimers : t.handle = autosaveTimerRef)
    /\ [][\A t \in autosaveTimers :
             t \notin autosaveTimers'
                 => \/ commit
                    \/ /\ Fires
                       /\ autosaved' = [chatId |-> t.id, state |-> dashboardStateRef]
                       /\ (opfs' # opfs => opfs' = Put(opfs, t.id, dashboardStateRef))]_vars
    /\ (autosaveTimers # {}) ~> (autosaveTimers = {})

\* The layout set in chatA has been saved for it by a timer, and no timer is
\* left.
C24_ChangedLayoutSaved ==
    /\ currentChatId = "chatA"
    /\ dashboardState.grid = newGrid(LayoutA)
    /\ autosaved = [chatId |-> "chatA", state |-> dashboardState]
    /\ "chatA" \in DOMAIN opfs
    /\ opfs["chatA"] = dashboardState
    /\ autosaveTimers = {}

----------------------------------------------------------------------------
(* From the empty dashboard: the layout first *)

\* A layout without rows.
LayoutEmpty ==
    [columns |-> "1fr 1fr", rows |-> "auto 1fr", gap |-> "16px", templateAreas |-> <<>>]

NextStart ==
    \/ SyncRef
    \/ \E params \in LayoutParams \cup {LayoutEmpty} : set_grid_layout(params)
    \/ \E params \in CreateParams : create_component(params)
    \/ \E params \in MergeUpdates : update_component(params)
    \/ \E params \in WholeUpdates : update_component(params)
    \/ \E params \in IdParams : remove_component(params)

SpecStart == Init /\ [][NextStart]_vars

\* C31: while the template of the dashboard is empty there is no component and
\* every create_component is answered success=false; the template stops being
\* empty only by a set_grid_layout that succeeds.
C31_NoComponentBeforeALayout ==
    /\ [](dashboardState.grid.templateAreas = <<>>
            => /\ DOMAIN components = {}
               /\ \A params \in CreateParams : ~create_component_response(params).success)
    /\ [][(dashboardState.grid.templateAreas = <<>>
             /\ dashboardState'.grid.templateAreas # <<>>)
            => \E params \in LayoutParams \cup {LayoutEmpty} :
                  /\ set_grid_layout_response(params).success
                  /\ set_grid_layout(params)]_vars

\* On the empty dashboard a component is asked for in the area "main" and
\* refused for the area.
C31_CreateRefusedOnEmptyDashboard ==
    /\ dashboardState = EMPTY_DASHBOARD
    /\ dashboardStateRef = EMPTY_DASHBOARD
    /\ \E params \in CreateParams :
          /\ params.gridArea = "main"
          /\ create_component_response(params).error = "not found in template areas"

\* C32: when the fetch of fetch_component_data settles for a component that
\* has been removed while it was in flight, the component stays absent from
\* components and no state updater throws.
C32_RemovedComponentStaysRemoved ==
    [][\A call \in fetching : \A response \in Responses :
          (call.id \notin DOMAIN components /\ fetch_settles(call, response))
              => /\ call.id \notin DOMAIN dashboardState'.components
                 /\ ~crashed']_vars

\* The values the resolution of a configuration can give.
Resolutions(componentId, config) ==
    {fetchData(componentId, config, response).value : response \in Responses}

\* C33: what DataFetcher.fetchData returns for a component and the
\* configuration it has now is a resolution of that configuration, whatever
\* configuration the component was fetched with before.
C33_FetchedDataIsOfTheConfigInUse ==
    \A config \in TransformConfigs : \A response \in Responses :
        DataFetcher_fetchData_result("c1", config, response).status = "fulfilled"
            => DataFetcher_fetchData_result("c1", config, response).value
                   \in Resolutions("c1", config)

\* C34: with the cache enabled, a fetch whose source answered with a soft
\* error leaves nothing in the cache: the next fetch of the component is not
\* a cache hit and asks the source again.
C34_SoftErrorIsNotCached ==
    [][\A componentId \in ComponentIds : \A config \in FetchConfigs :
          \A response \in Responses :
             ( /\ config.cache.enabled
               /\ ~cacheHit(componentId, config)
               /\ fetchData(componentId, config, response).status = "fulfilled"
               /\ IsSoftError(fetchData(componentId, config, response).value)
               /\ DataFetcher_fetchData(componentId, config, response) )
                 => ~cacheHit(componentId, config)']_vars

----------------------------------------------------------------------------
(* refresh_all_components, fetch by fetch *)

\* A promise Promise.allSettled is still waiting for.
PendingFetch == [status |-> "pending", value |-> None, reason |-> None]

\* refresh_all_components up to its await: the fetches of the components the
\* ref lists are started, none has settled.
refresh_all_components_starts ==
    LET currentState == getDashboardState
        componentIds == ObjectKeys(currentState.components)
    IN  /\ ~crashed
        /\ InFlight < MaxInFlight
        /\ refreshing' = refreshing \cup
               {[handle |-> newHandle(refreshing),
                 componentIds |-> componentIds,
                 dataConfigs |-> [i \in 1..Len(componentIds) |->
                                     currentState.components[componentIds[i]].dataConfig],
                 answers |-> [i \in 1..Len(componentIds) |-> "pending"]]}
        /\ UNCHANGED <<dashboardState, dashboardStateRef, unsynced, fetching, crashed>>
        /\ UNCHANGED <<fetcherVars, pathVars, probeVars, sessionVars>>

\* The fetch of the component at index i settles, the transport having
\* answered with response: Promise.allSettled records the settlement at that
\* index and goes on waiting.
refresh_fetch_settles(call, i, response) ==
    /\ ~crashed
    /\ call \in refreshing
    /\ call.answers[i] = "pending"
    /\ refreshing' = (refreshing \ {call}) \cup {[call EXCEPT !.answers[i] = response]}
    /\ UNCHANGED <<dashboardState, dashboardStateRef, unsynced, fetching, crashed>>
    /\ UNCHANGED <<fetcherVars, pathVars, probeVars, sessionVars>>

\* What Promise.allSettled has recorded for the call so far.
settlements(call) ==
    [i \in 1..Len(call.componentIds) |->
        IF call.answers[i] = "pending" THEN PendingFetch
        ELSE fetchData(call.componentIds[i], call.dataConfigs[i], call.answers[i])]

\* A wait that ends with the first settlement.
someHasSettled(results) ==
    results = <<>> \/ \E i \in 1..Len(results) : results[i].status # "pending"

\* await Promise.allSettled(...) goes on once every promise has settled.
allHaveSettled(results) ==
    \A i \in 1..Len(results) : results[i].status # "pending"

\* refresh_all_components from the end of its await to its return: the one
\* update of the state.
refresh_all_components_returns(call) ==
    /\ ~crashed
    /\ call \in refreshing
    /\ allHaveSettled(settlements(call))
    /\ refreshing' = refreshing \ {call}
    /\ setDashboardState(RefreshUpdater(dashboardState, call.componentIds, settlements(call)))
    /\ UNCHANGED <<dashboardStateRef, fetching>>

NextRefreshAll ==
    \/ SyncRef
    \/ set_grid_layout(LayoutA)
    \/ \E params \in CreateParams :
          params.dataConfig.source.type \in {"static", "postgresql"} /\ create_component(params)
    \/ remove_component([id |-> "c1"])
    \/ refresh_all_components_starts
    \/ \E call \in refreshing : \E i \in 1..Len(call.componentIds) :
          \E response \in {"ok", "networkError"} : refresh_fetch_settles(call, i, response)
    \/ \E call \in refreshing : refresh_all_components_returns(call)

SpecRefreshAll == Init /\ [][NextRefreshAll]_vars

\* The calls of refresh_all_components that return in this step.
RefreshesReturning ==
    {call \in refreshing : \A later \in refreshing' : later.handle # call.handle}

\* C35: no step of a refresh_all_components call changes the dashboard while
\* the call goes on; the call returns only when every one of its fetches has
\* settled, and the step in which it returns applies the updates of all its
\* components together, as one change of the state (or none of them, when the
\* updater throws).
C35_RefreshAppliesOnceAllHaveSettled ==
    [][refreshing' # refreshing =>
          IF RefreshesReturning = {}
          THEN dashboardState' = dashboardState
          ELSE \A call \in RefreshesReturning :
                  /\ \A i \in 1..Len(call.answers) : call.answers[i] # "pending"
                  /\ LET update == RefreshUpdater(dashboardState, call.componentIds,
                                                  settlements(call))
                     IN  IF update.throws
                         THEN crashed' /\ dashboardState' = dashboardState
                         ELSE dashboardState' = update.state]_vars

\* A refresh of two components of which one fetch has settled and the other
\* has not, and no component has been given anything.
C35_OneFetchStillPending ==
    \E call \in refreshing :
        /\ Len(call.componentIds) = 2
        /\ settlements(call)[1].status = "fulfilled"
        /\ call.answers[2] = "pending"
        /\ \A id \in DOMAIN components : components[id].metadata.fetchStatus = "idle"
        /\ DOMAIN components = ComponentIds

\* Both fetches of a refresh have settled and the call has given both
\* components what was fetched.
C35_BothComponentsRefreshed ==
    /\ refreshing = {}
    /\ DOMAIN components = ComponentIds
    /\ \A id \in ComponentIds : components[id].metadata.fetchStatus # "idle"

----------------------------------------------------------------------------
(* What create_component reports about the grid *)

\* const stats = getGridStats(getDashboardState()), evaluated after the call of
\* setDashboardState and before the component has rendered again.
create_component_gridStats(params) == getGridStats(getDashboardState)

\* data.suggestion of a successful create_component.
suggestion(stats) ==
    IF stats.availableAreas > 0
    THEN [text |-> "grid area(s) still available", count |-> stats.availableAreas,
          names |-> stats.availableAreaNames]
    ELSE [text |-> "All grid areas are now occupied", count |-> 0, names |-> <<>>]

\* C36: the gridStats and the suggestion of a successful create_component
\* are those of the dashboard with the new component in it: the area just
\* filled is counted as used and is not listed as available.
C36_GridStatsCountTheNewComponent ==
    [][\A params \in CreateParams :
          (create_component_response(params).success /\ create_component(params))
              => /\ create_component_gridStats(params) = getGridStats(dashboardState')
                 /\ suggestion(create_component_gridStats(params))
                        = suggestion(getGridStats(dashboardState'))]_vars

\* C37: what is saved under the '__latest' key of a chat is a dashboard that
\* was loaded for that chat or built by tool calls in it. The dashboard stored
\* for chatB before the session is one no tool call of the session builds
\* (the one layout set is LayoutA), so it is the dashboard of chatB alone, and
\* is never saved under the id of another chat.
C37_SavedUnderTheChatItBelongsTo ==
    \A id \in DOMAIN opfs : opfs[id] = StoredDashboard => id = "chatB"

\* The chat the load effect last ran for.
chatOfLastRun ==
    IF committed.currentChatId # None THEN committed.currentChatId ELSE readStoredChatId

\* C38: the only load whose result can be applied is the one the last run of
\* the load effect has issued: once the effect has run for another chat, the
\* loads issued before are cancelled, and what a load resolves with is applied
\* only for the chat the effect last ran for, so that it never replaces the
\* state of a chat the effect has run for since.
C38_LoadAppliedForTheChatOfTheLastRun ==
    /\ [](\A load \in loading : load.id = chatOfLastRun)
    /\ [](Cardinality(loading) <= 1)
    /\ [][\A load \in loading :
             load_settles(load, "resolved")
                 => /\ load.id = chatOfLastRun
                    /\ dashboardState' = latestOrEmpty(loadLatestDashboard(opfs, load.id))]_vars

\* C38 as stated: the dashboard a load resolves with is applied to the state
\* only when the chat it was issued for is the active chat at that moment.
C38_LoadAppliedForTheActiveChat ==
    [][\A load \in loading :
          load_settles(load, "resolved") => load.id = resolveActiveChatId]_vars

\* The dashboard of chatB is shown, chatA has become the active chat, and the
\* one load awaited is the load of chatA.
C38_OnlyTheLoadOfTheNewChatAwaited ==
    /\ committed.mounted
    /\ chatOfLastRun = "chatA"
    /\ dashboardState = StoredDashboard
    /\ \E load \in loading : load.id = "chatA" /\ load.previous = StoredDashboard

----------------------------------------------------------------------------
(* The GraphQL endpoint *)

EndpointParams == {[endpoint |-> e] : e \in {"/graphql", "https://example.org/graphql"}}

\* An updater that stamps the metadata as it stores the endpoint.
graphqlEndpointUpdater_stamped(prev, params) ==
    Applied([prev EXCEPT !.graphqlEndpoint = params.endpoint,
                         !.metadata = Put(prev.metadata, "updatedAt", Now)])

\* prev => ({...prev, graphqlEndpoint: params.endpoint})
graphqlEndpointUpdater(prev, params) ==
    Applied(Put(prev, "graphqlEndpoint", params.endpoint))

set_graphql_endpoint_response(params) ==
    ToolResponse(TRUE, None, [endpoint |-> params.endpoint])

set_graphql_endpoint(params) ==
    /\ ~crashed
    /\ setDashboardState(graphqlEndpointUpdater(dashboardState, params))
    /\ UNCHANGED <<dashboardStateRef, fetching, refreshing>>

\* const endpoint = source.endpoint || this.graphqlEndpoint
requestEndpoint(source) ==
    IF "endpoint" \in DOMAIN source THEN source.endpoint ELSE fetcherGraphqlEndpoint

\* A component fed by a GraphQL source that names no endpoint.
GraphqlComponent ==
    [id |-> "c1", type |-> "chart", gridArea |-> "main", title |-> "Sales",
     dataConfig |-> GraphqlCfg]

NextEndpoint ==
    \/ SyncRef
    \/ set_grid_layout(LayoutA)
    \/ create_component(GraphqlComponent)
    \/ \E params \in SchemaParams : set_postgres_schema(params)
    \/ \E params \in EndpointParams : set_graphql_endpoint(params)
    \/ fetch_component_data([id |-> "c1"])
    \/ \E call \in fetching : \E response \in Responses : fetch_settles(call, response)

SpecEndpoint == Init /\ [][NextEndpoint]_vars

\* C39: set_graphql_endpoint(e) answers success and leaves the dashboard state
\* as it was but for graphqlEndpoint, which becomes e; the endpoint the data
\* fetcher sends the query of a GraphQL source without an endpoint of its own
\* to is '/graphql', the one given when the tools were created, before the
\* call and after it.
C39_EndpointToolWritesOnlyGraphqlEndpoint ==
    /\ [](requestEndpoint(GraphqlCfg.source) = "/graphql")
    /\ [][\A params \in EndpointParams :
             set_graphql_endpoint(params)
                 => /\ set_graphql_endpoint_response(params).success
                    /\ dashboardState'.graphqlEndpoint = params.endpoint
                    /\ dashboardState'.grid = dashboardState.grid
                    /\ dashboardState'.components = dashboardState.components
                    /\ dashboardState'.metadata = dashboardState.metadata
                    /\ dashboardState'.postgresSchema = dashboardState.postgresSchema
                    /\ DOMAIN dashboardState' = DOMAIN dashboardState
                    /\ fetcherConfig' = fetcherConfig]_vars

\* Another endpoint has been stored on a dashboard that has a layout, a
\* component with a GraphQL source and a schema, and the component has been
\* fetched since.
C39_EndpointStoredAndComponentFetched ==
    /\ dashboardState.graphqlEndpoint = "https://example.org/graphql"
    /\ dashboardState.grid.templateAreas # <<>>
    /\ dashboardState.postgresSchema # Undefined
    /\ "c1" \in DOMAIN components
    /\ components["c1"].metadata.fetchStatus = "success"
    /\ components["c1"].data = QueryRows

====
